---- MODULE Spec2Model ----
(***************************************************************************)
(* Rainfall frequency analysis: the numerical core (RainUtils,             *)
(* FrequencyAnalysis, KSTest, ChiSquareTest) as a state machine.           *)
(*                                                                         *)
(* Numbers.  A JavaScript number is modelled as a decimal fixed-point      *)
(* value: the integer x stands for x / Unit.  Every product and quotient   *)
(* is rounded to the nearest multiple of 1 / Unit.  The values a finite    *)
(* number cannot carry (NaN, +Infinity, -Infinity) are modelled by tagged  *)
(* records (JsNaN, JsPosInf, JsNegInf, Fin(x)) wherever the source can     *)
(* produce them.                                                           *)
(***************************************************************************)
EXTENDS Integers, Sequences, FiniteSets, Bags, TLC

(***************************************************************************)
(* Fixed-point arithmetic                                                  *)
(*                                                                         *)
(* The numerical routines are TLA+ functions: a function application       *)
(* evaluates its arguments once, as a JavaScript call does.                *)
(***************************************************************************)
\* Resolution of the fixed-point representation: 1.0 is the integer Unit.
Unit == 10 ^ 4

Abs(a) == IF a < 0 THEN -a ELSE a

Sign(a) == IF a < 0 THEN -1 ELSE IF a > 0 THEN 1 ELSE 0

\* a / b for integers, b # 0, rounded to nearest (half away from zero).
RDiv[a \in Int, b \in Int] ==
    LET q == (Abs(a) + (Abs(b) \div 2)) \div Abs(b)
    IN  IF Sign(a) * Sign(b) < 0 THEN -q ELSE q

\* a * b / Unit for a, b >= 0, rounded to nearest, by the whole and the
\* fractional part of a, so that no intermediate product leaves the integers
\* of the tool when the result does not.
MulParts[a \in Int, b \in Int] == (a \div Unit) * b + RDiv[(a % Unit) * b, Unit]

\* r * scale / y for 0 <= r < y, rounded to nearest, one decimal digit at a time.
DivDigits[r \in Int, y \in Int, scale \in Int] ==
    IF scale = 1 THEN (IF 2 * r >= y THEN 1 ELSE 0)
    ELSE ((10 * r) \div y) * (scale \div 10) + DivDigits[(10 * r) % y, y, scale \div 10]

\* x * y and x / y on fixed-point values.
Mul(x, y) ==
    Sign(x) * Sign(y) * (IF Abs(x) >= Abs(y) THEN MulParts[Abs(x), Abs(y)]
                                              ELSE MulParts[Abs(y), Abs(x)])

Div(x, y) ==
    Sign(x) * Sign(y) * ((Abs(x) \div Abs(y)) * Unit + DivDigits[Abs(x) % Abs(y), Abs(y), Unit])

\* Fixed-point value of the integer k, and of the decimal literal m / 10^6.
OfInt(k) == k * Unit

Lit(m) == RDiv[m, (10 ^ 6) \div Unit]

\* Largest r in lo..hi with r * r <= v (bisection).
SqrtIter[v \in Int, lo \in Int, hi \in Int] ==
    IF lo >= hi THEN lo
    ELSE IF ((lo + hi + 1) \div 2) * ((lo + hi + 1) \div 2) <= v
         THEN SqrtIter[v, (lo + hi + 1) \div 2, hi]
         ELSE SqrtIter[v, lo, ((lo + hi + 1) \div 2) - 1]

SqrtNearest[v \in Int, r \in Int] ==
    IF (r + 1) * (r + 1) - v < v - r * r THEN r + 1 ELSE r

\* The square root of Unit.
UnitRoot == 10 ^ 2

\* Largest t in lo..hi with (UnitRoot * s + t)^2 <= Unit * s^2 + d (bisection).
SqrtDigits[d \in Int, s \in Int, lo \in Int, hi \in Int] ==
    IF lo >= hi THEN lo
    ELSE IF (2 * UnitRoot * s + (lo + hi + 1) \div 2) * ((lo + hi + 1) \div 2) <= d
         THEN SqrtDigits[d, s, (lo + hi + 1) \div 2, hi]
         ELSE SqrtDigits[d, s, lo, ((lo + hi + 1) \div 2) - 1]

\* The integer nearest to the square root of Unit * s^2 + d, whose integer
\* part is UnitRoot * s + t.
SqrtRounded[d \in Int, s \in Int, t \in Int] ==
    IF d - (2 * UnitRoot * s + t) * t >= UnitRoot * s + t + 1
    THEN UnitRoot * s + t + 1
    ELSE UnitRoot * s + t

SqrtOfParts[x \in Int, s \in Int] ==
    SqrtRounded[Unit * (x - s * s), s, SqrtDigits[Unit * (x - s * s), s, 0, UnitRoot - 1]]

\* Math.sqrt on a fixed-point x >= 0: the integer nearest to the square root
\* of x * Unit, from the integer part s of the square root of x.
Sqrt[x \in Int] == SqrtOfParts[x, SqrtIter[x, 0, 46340]]

\* ln 2 and ln 10.
Ln2 == Lit(693147)

Ln10 == Lit(2302585)

\* 2 atanh(y) = 2 (y + y^3/3 + y^5/5 + y^7/7)
Atanh2[y \in Int] ==
    LET y2 == Mul(y, y)
        y3 == Mul(y, y2)
        y5 == Mul(y3, y2)
        y7 == Mul(y5, y2)
    IN  2 * (y + RDiv[y3, 3] + RDiv[y5, 5] + RDiv[y7, 7])

\* Math.log on x > 0: x is scaled by powers of two into [0.75, 1.5], where
\* ln x = 2 atanh((x - 1) / (x + 1)); k counts the scalings.
LnReduced[x \in Int, k \in Int] ==
    IF x > (3 * Unit) \div 2 THEN LnReduced[RDiv[x, 2], k + 1]
    ELSE IF x < (3 * Unit) \div 4 THEN LnReduced[x * 2, k - 1]
    ELSE k * Ln2 + Atanh2[Div(x - Unit, x + Unit)]

\* Math.log is zero only at 1: a result that rounds to zero keeps its sign.
LnSigned[x \in Int, r \in Int] ==
    IF x > Unit /\ r <= 0 THEN 1
    ELSE IF x < Unit /\ r >= 0 THEN -1
    ELSE IF x = Unit THEN 0
    ELSE r

Ln[x \in Int] == LnSigned[x, LnReduced[x, 0]]

\* Math.log10 on x > 0.
Log10(x) == Div(Ln[x], Ln10)

\* Sum of r^j / j! for j = k..8, term being r^(k-1) / (k-1)!.
ExpTaylor[r \in Int, term \in Int, k \in Int, acc \in Int] ==
    IF k > 8 \/ term = 0 THEN acc
    ELSE ExpTaylor[r, RDiv[Mul(term, r), k], k + 1, acc + RDiv[Mul(term, r), k]]

\* x * 2^k.
Pow2Scale[x \in Int, k \in Int] ==
    IF k = 0 THEN x
    ELSE IF k > 0 THEN Pow2Scale[x * 2, k - 1]
    ELSE Pow2Scale[RDiv[x, 2], k + 1]

\* Math.exp: x = k ln 2 + r with 0 <= r < ln 2, exp x = 2^k exp r.
Exp[x \in Int] ==
    Pow2Scale[ExpTaylor[x - (x \div Ln2) * Ln2, Unit, 1, Unit], x \div Ln2]

\* Math.pow(10, x) on a finite x.
Pow10(x) == Exp[Mul(x, Ln10)]

(***************************************************************************)
(* JavaScript numbers that may be NaN or infinite                          *)
(***************************************************************************)
JsNaN == [k |-> "NaN", v |-> 0]

JsPosInf == [k |-> "Inf", v |-> 1]

JsNegInf == [k |-> "Inf", v |-> -1]

JsUndefined == [k |-> "undefined", v |-> 0]

Fin(x) == [k |-> "fin", v |-> x]

JsNum == [k : {"fin", "NaN", "Inf", "undefined"}, v : Int]

\* isNaN(a)
IsNaN(a) == a.k = "NaN" \/ a.k = "undefined"

IsFin(a) == a.k = "fin"

\* -a
JsNeg[a \in JsNum] == IF IsNaN(a) THEN JsNaN ELSE [k |-> a.k, v |-> -a.v]

\* a + b
JsAdd[a \in JsNum, b \in JsNum] ==
    IF IsNaN(a) \/ IsNaN(b) THEN JsNaN
    ELSE IF IsFin(a) /\ IsFin(b) THEN Fin(a.v + b.v)
    ELSE IF IsFin(a) THEN b
    ELSE IF IsFin(b) THEN a
    ELSE IF a.v = b.v THEN a ELSE JsNaN

\* a * b
JsMul[a \in JsNum, b \in JsNum] ==
    IF IsNaN(a) \/ IsNaN(b) THEN JsNaN
    ELSE IF IsFin(a) /\ IsFin(b) THEN Fin(Mul(a.v, b.v))
    ELSE IF Sign(a.v) * Sign(b.v) = 0 THEN JsNaN
    ELSE IF Sign(a.v) * Sign(b.v) > 0 THEN JsPosInf ELSE JsNegInf

\* a < b and a > b (false whenever an operand is NaN)
JsLt[a \in JsNum, b \in JsNum] ==
    IF IsNaN(a) \/ IsNaN(b) THEN FALSE
    ELSE IF IsFin(a) /\ IsFin(b) THEN a.v < b.v
    ELSE IF IsFin(a) THEN b.v > 0
    ELSE IF IsFin(b) THEN a.v < 0
    ELSE a.v < b.v

JsGt(a, b) == JsLt[b, a]

\* Math.log(a)
JsLog[a \in JsNum] ==
    IF IsNaN(a) THEN JsNaN
    ELSE IF ~IsFin(a) THEN (IF a.v > 0 THEN JsPosInf ELSE JsNaN)
    ELSE IF a.v < 0 THEN JsNaN
    ELSE IF a.v = 0 THEN JsNegInf
    ELSE Fin(Ln[a.v])

\* Math.pow(10, a)
JsPow10[a \in JsNum] ==
    IF IsNaN(a) THEN JsNaN
    ELSE IF ~IsFin(a) THEN (IF a.v > 0 THEN JsPosInf ELSE Fin(0))
    ELSE Fin(Pow10(a.v))

\* arr[index] of a JavaScript array (0-based): undefined outside the array.
ArrayGet(arr, index) ==
    IF index + 1 \in DOMAIN arr THEN Fin(arr[index + 1]) ELSE JsUndefined

(***************************************************************************)
(* Arrays of numbers                                                       *)
(***************************************************************************)
SumSeq[s \in Seq(Int)] == IF s = <<>> THEN 0 ELSE Head(s) + SumSeq[Tail(s)]

InsertAsc[x \in Int, s \in Seq(Int)] ==
    IF s = <<>> THEN <<x>>
    ELSE IF x < Head(s) THEN <<x>> \o s
    ELSE <<Head(s)>> \o InsertAsc[x, Tail(s)]

\* RainUtils.sort: arr.slice().sort((a, b) => a - b), a new ascending array.
SortAsc[arr \in Seq(Int)] ==
    IF arr = <<>> THEN <<>>
    ELSE InsertAsc[arr[Len(arr)], SortAsc[SubSeq(arr, 1, Len(arr) - 1)]]

\* A sort that works in place on its argument.
ArgumentSortedInPlace(arr) == SortAsc[arr]

\* RainUtils.sort: what the call leaves in its argument; arr.slice() takes a
\* copy and the copy is what Array.prototype.sort reorders.
ArgumentAfterSort(arr) == arr

Reverse[s \in Seq(Int)] == [i \in 1..Len(s) |-> s[Len(s) + 1 - i]]

\* val => (val > 1e-6 ? Math.log10(val) : 0)
LogClamp(val) == IF val > Lit(1) THEN Log10(val) ELSE 0

LogTransform[s \in Seq(Int)] == [i \in 1..Len(s) |-> LogClamp(s[i])]

(***************************************************************************)
(* RainUtils                                                               *)
(***************************************************************************)
\* statistics: the sums of squared and cubed differences from the mean.
SumSqDiff[X \in Seq(Int), mean \in Int] ==
    SumSeq[[i \in 1..Len(X) |-> Mul(X[i] - mean, X[i] - mean)]]

SumCubeDiff[X \in Seq(Int), mean \in Int] ==
    SumSeq[[i \in 1..Len(X) |-> Mul(Mul(X[i] - mean, X[i] - mean), X[i] - mean)]]

\* statistics: the skewness from the second and third central moments.
Skewness[n \in Int, M2 \in Int, M3 \in Int] ==
    IF n > 2 /\ M2 > 0
    THEN Mul(Div(Sqrt[OfInt(n * (n - 1))], OfInt(n - 2)), Div(M3, Mul(M2, Sqrt[M2])))
    ELSE 0

\* The objects statistics returns.
StatisticsObjects == [Xmin : Int, Xmax : Int, M : Int, SD : Int, Cv : Int, Cs : Int]

\* statistics: the returned object.
StatisticsObject[n \in Int, sortedX \in Seq(Int), mean \in Int, stdDev \in Int, skewness \in Int] ==
    [Xmin |-> sortedX[1], Xmax |-> sortedX[n], M |-> mean, SD |-> stdDev,
     Cv |-> IF mean # 0 THEN Div(stdDev, mean) ELSE 0, Cs |-> skewness]

StatisticsOfMean[X \in Seq(Int), n \in Int, mean \in Int] ==
    StatisticsObject[n, SortAsc[X], mean,
        Sqrt[IF n > 1 THEN RDiv[SumSqDiff[X, mean], n - 1] ELSE 0],
        Skewness[n, RDiv[SumSqDiff[X, mean], n], RDiv[SumCubeDiff[X, mean], n]]]

\* RainUtils.statistics
statistics[X \in Seq(Int)] ==
    IF Len(X) = 0
    THEN [Xmin |-> 0, Xmax |-> 0, M |-> 0, SD |-> 0, Cv |-> 0, Cs |-> 0]
    ELSE StatisticsOfMean[X, Len(X), RDiv[SumSeq[X], Len(X)]]

\* Coefficients of Abramowitz and Stegun 26.2.23.
LookC0 == Lit(2515517)

LookC1 == Lit(802853)

LookC2 == Lit(10328)

LookD1 == Lit(1432788)

LookD2 == Lit(189269)

LookD3 == Lit(1308)

\* Look: t - numerator / denominator.
LookRational[t \in Int] ==
    LET numerator   == LookC0 + Mul(LookC1, t) + Mul(Mul(LookC2, t), t)
        denominator == Unit + Mul(LookD1, t) + Mul(Mul(LookD2, t), t)
                            + Mul(Mul(Mul(LookD3, t), t), t)
    IN  t - Div(numerator, denominator)

\* The same routine with the range check returning 0 instead of NaN.
LookZeroOutOfRange(p) ==
    IF p <= 0 \/ p >= Unit THEN Fin(0)
    ELSE IF 2 * p = Unit THEN Fin(0)
    ELSE IF 2 * p < Unit THEN Fin(-LookRational[Sqrt[-2 * Ln[p]]])
    ELSE Fin(LookRational[Sqrt[-2 * Ln[Unit - p]]])

\* The same routine with the sign lost on the branch of p < 0.5.
LookWithoutNegation(p) ==
    IF p <= 0 \/ p >= Unit THEN JsNaN
    ELSE IF 2 * p = Unit THEN Fin(0)
    ELSE Fin(LookRational[Sqrt[-2 * Ln[IF 2 * p < Unit THEN p ELSE Unit - p]]])

RECURSIVE Look(_)
\* RainUtils.Look: the standard normal inverse CDF; NaN outside (0, 1).
Look(p) ==
    IF p <= 0 \/ p >= Unit THEN JsNaN
    ELSE IF 2 * p = Unit THEN Fin(0)
    ELSE IF 2 * p < Unit THEN JsNeg[Look(Unit - p)]
    ELSE Fin(LookRational[Sqrt[-2 * Ln[Unit - p]]])

RECURSIVE LookNested(_)
\* The number of calls of Look that Look(p) makes on itself, along the same branches.
LookNested(p) ==
    IF p <= 0 \/ p >= Unit THEN 0
    ELSE IF 2 * p = Unit THEN 0
    ELSE IF 2 * p < Unit THEN 1 + LookNested(Unit - p)
    ELSE 0

\* RainUtils.Extreme: the Gumbel reduced variate of the exceedance probability px.
Extreme[px \in Int] == JsNeg[JsLog[JsNeg[JsLog[Fin(Unit - px)]]]]

(***************************************************************************)
(* Distribution codes and confidence levels                                *)
(***************************************************************************)
\* DistributionType
Normal == 1

LogNormal == 2

PearsonType3 == 3

LogPearsonType3 == 4

ExtremeValueType1 == 5

\* A transform to logarithms applied to every distribution.
RequiresLogAlways(distType) == TRUE

\* distType === LogNormal || distType === LogPearsonType3
RequiresLog(distType) == distType = LogNormal \/ distType = LogPearsonType3

\* KSTest.KSalpha: 85%, 90%, 95%, 97.5%, 99% (index c is KSalpha[c + 1]).
KSalpha == <<Lit(775000), Lit(819000), Lit(895000), Lit(995000), Lit(1035000)>>

(***************************************************************************)
(* KSTest                                                                  *)
(***************************************************************************)
NoInstance == [exists |-> FALSE]

\* The guard without its upper limit.
KSCtorThrowsLowOnly(confidenceLevelIndex) == confidenceLevelIndex < 0

\* KSTest.constructor: the guard that throws "Invalid confidenceLevelIndex."
KSCtorThrows(confidenceLevelIndex) ==
    confidenceLevelIndex < 0 \/ confidenceLevelIndex >= Len(KSalpha)

\* KSTest.constructor: the instance built when the guard passes.
KSNewInstance(confidenceLevelIndex) ==
    [exists |-> TRUE,
     confidenceLevelIndex |-> confidenceLevelIndex,
     alpha |-> ArrayGet(KSalpha, confidenceLevelIndex)]

\* KSTest.sortDescending: what the call leaves in its argument; [...data] takes
\* a copy and the copy is what Array.prototype.sort reorders.
ArgumentAfterSortDescending(arr) == arr

\* A sort that leaves the smallest value first.
sortAscending(arr) == SortAsc[arr]

\* KSTest.sortDescending: a sorted copy, largest first.
sortDescending(arr) == Reverse[SortAsc[arr]]

\* KSTest._plottingPosition
PlottingB(method) ==
    CASE method = 1 -> Lit(500000)
      [] method = 2 -> Lit(300000)
      [] method = 3 -> 0
      [] method = 4 -> Div(OfInt(3), OfInt(8))
      [] method = 5 -> Div(OfInt(1), OfInt(3))
      [] method = 6 -> Lit(440000)
      [] OTHER -> 0

plottingPosition(method, rank, n) ==
    LET b == PlottingB(method)
    IN  Div(OfInt(rank) - b, OfInt(n) + Unit - 2 * b)

\* The Wilson-Hilferty polynomial of KSTest._getPearson3Kt and
\* ChiSquareTest._getPearson3Kt on finite z, in the source's order of operations.
WilsonHilferty[z \in Int, skew \in Int] ==
    LET k     == Div(skew, OfInt(6))
        z2    == Mul(z, z)
        k2    == Mul(Div(skew, OfInt(6)), Div(skew, OfInt(6)))
        third == Div(OfInt(1), OfInt(3))
    IN  z + Mul(z2 - Unit, k)
          + Mul(Mul(Mul(third, z), z2 - OfInt(6)), k2)
          - Mul(Mul(z2 - Unit, k2), k)
          + Mul(Mul(z, k2), k2)
          + Mul(Mul(Mul(third, k2), k2), k)

\* KSTest._getPearson3Kt: NaN in, NaN out.
KSGetPearson3Kt[z \in JsNum, skew \in Int] ==
    IF IsNaN(z) THEN JsNaN ELSE Fin(WilsonHilferty[z.v, skew])

\* runTest: Ca = alpha / (sqrt(N) - 0.01 + 0.85 / sqrt(N))
\* (for N = 0 the divisor is 0.85 / 0 = Infinity, and alpha / Infinity is 0)
KSCa(alpha, N) ==
    IF N = 0 THEN 0
    ELSE Div(alpha, Sqrt[OfInt(N)] - Lit(10000) + Div(Lit(850000), Sqrt[OfInt(N)]))

\* runTest: the confidence band's probabilities at a rank.
ProbLower(rank, N, Ca) == RDiv[OfInt(rank - 1), N] + Ca

ProbUpper(rank, N, Ca) == RDiv[OfInt(rank), N] - Ca

\* runTest: z = mean + std * kt, and the bounds, which keep their initial NaN
\* unless the factor is a number.
ZOf[location \in Int, scale \in Int, kt \in JsNum] ==
    JsAdd[Fin(location), JsMul[Fin(scale), kt]]

BoundOf[location \in Int, scale \in Int, kt \in JsNum] ==
    IF ~IsNaN(kt) THEN ZOf[location, scale, kt] ELSE JsNaN

ZRecord(location, scale, ktEst, ktLow, ktHigh) ==
    [thrown |-> FALSE,
     zEst   |-> ZOf[location, scale, ktEst],
     zLow   |-> BoundOf[location, scale, ktLow],
     zHigh  |-> BoundOf[location, scale, ktHigh]]

\* runTest: the switch on distType for one rank; thrown is the default branch.
KSDispatch[distType \in Int, px \in Int, probLower \in Int, probUpper \in Int, mean \in Int, std \in Int, skew \in Int] ==
    IF distType = Normal \/ distType = LogNormal THEN
        ZRecord(mean, std, Look(Unit - px), Look(Unit - probLower),
                Look(Unit - probUpper))
    ELSE IF distType = PearsonType3 \/ distType = LogPearsonType3 THEN
        ZRecord(mean, std, KSGetPearson3Kt[Look(Unit - px), skew],
                KSGetPearson3Kt[Look(Unit - probLower), skew],
                KSGetPearson3Kt[Look(Unit - probUpper), skew])
    ELSE IF distType = ExtremeValueType1 THEN
        ZRecord(mean - Mul(Lit(577200), Mul(Lit(779700), std)),
                Mul(Lit(779700), std),
                Extreme[px], Extreme[probLower], Extreme[probUpper])
    ELSE [thrown |-> TRUE, zEst |-> JsNaN, zLow |-> JsNaN, zHigh |-> JsNaN]

ZRecords == [thrown : BOOLEAN, zEst : JsNum, zLow : JsNum, zHigh : JsNum]

\* runTest: if log-transformed, convert back to the original scale.
KSBackTransform[requiresLog \in BOOLEAN, z \in ZRecords] ==
    IF requiresLog
    THEN [thrown |-> z.thrown,
          zEst  |-> JsPow10[z.zEst],
          zLow  |-> IF ~IsNaN(z.zLow) THEN JsPow10[z.zLow] ELSE z.zLow,
          zHigh |-> IF ~IsNaN(z.zHigh) THEN JsPow10[z.zHigh] ELSE z.zHigh]
    ELSE z

\* runTest: does the observed value leave the band on the low / high side?
BelowLower(observedValue, zLow) == ~IsNaN(zLow) /\ JsLt[Fin(observedValue), zLow]

AboveUpper(observedValue, zHigh) == ~IsNaN(zHigh) /\ JsGt(Fin(observedValue), zHigh)

\* runTest: the mark of a rank ('+' is assigned after '-', so it wins).
MarkOf(observedValue, zLow, zHigh) ==
    IF AboveUpper(observedValue, zHigh) THEN "+"
    ELSE IF BelowLower(observedValue, zLow) THEN "-"
    ELSE "G"

\* fitted taken from the current rank alone.
FittedThisRank(fitted, observedValue, zLow, zHigh) ==
    ~(BelowLower(observedValue, zLow) \/ AboveUpper(observedValue, zHigh))

\* runTest: results.fitted after a rank.
FittedAfter(fitted, observedValue, zLow, zHigh) ==
    IF BelowLower(observedValue, zLow) \/ AboveUpper(observedValue, zHigh)
    THEN FALSE
    ELSE fitted

\* runTest keeping its Ca in the instance.
InstanceKeepingCa(instance, Ca) == [instance EXCEPT !.alpha = Fin(Ca)]

\* runTest: the instance after the call; this.alpha is read, and no field of
\* this is assigned.
InstanceAfterRunTest(instance, Ca) == instance

\* runTest without its guard on the length.
RunTestNeverThrowsEmpty(N) == FALSE

\* runTest: the guard that throws "Input data array cannot be empty."
RunTestThrowsEmpty(N) == N = 0

\* runTest, lines 60-85: the locals before the loop.
RunTestStats[N \in Int, sortedData \in Seq(Int), requiresLog \in BOOLEAN, Ca \in Int, stats \in StatisticsObjects] ==
    [N |-> N, sortedData |-> sortedData, requiresLog |-> requiresLog, Ca |-> Ca,
     mean |-> stats.M, std |-> stats.SD, skew |-> stats.Cs, i |-> 1]

RunTestSorted[alpha \in Int, distType \in Int, sortedData \in Seq(Int)] ==
    RunTestStats[Len(sortedData), sortedData, RequiresLog(distType),
                 KSCa(alpha, Len(sortedData)),
                 statistics[IF RequiresLog(distType)
                            THEN LogTransform[sortedData] ELSE sortedData]]

RunTestLocals(alpha, distType, arr) ==
    RunTestSorted[alpha, distType, sortDescending(arr)]

RunTestResults(l) ==
    [obs |-> l.sortedData, est |-> <<>>, lowerBound |-> <<>>, upperBound |-> <<>>,
     mark |-> <<>>, prob |-> <<>>, Ca |-> l.Ca, fitted |-> TRUE]

\* runTest: one round of the loop over the ranks, for rank l.i.
RunTestRankZ(distType, l) ==
    KSBackTransform[l.requiresLog,
        KSDispatch[distType, plottingPosition(3, l.i, l.N),
                   ProbLower(l.i, l.N, l.Ca), ProbUpper(l.i, l.N, l.Ca),
                   l.mean, l.std, l.skew]]

RunTestRankResults(r, l, z) ==
    LET observedValue == l.sortedData[l.i]
    IN  [obs        |-> r.obs,
         est        |-> Append(r.est, z.zEst),
         lowerBound |-> Append(r.lowerBound, z.zLow),
         upperBound |-> Append(r.upperBound, z.zHigh),
         mark       |-> Append(r.mark, MarkOf(observedValue, z.zLow, z.zHigh)),
         prob       |-> Append(r.prob, plottingPosition(3, l.i, l.N)),
         Ca         |-> r.Ca,
         fitted     |-> FittedAfter(r.fitted, observedValue, z.zLow, z.zHigh)]

(***************************************************************************)
(* FrequencyAnalysis                                                       *)
(***************************************************************************)
\* The objects { Kt, Qest } the _calculate methods return.
FrequencyResults == [Kt : JsNum, Qest : JsNum]

\* FrequencyAnalysis._calculateNormal
CalculateNormal[mean \in Int, std \in Int, z \in JsNum] ==
    [Kt |-> z, Qest |-> JsAdd[Fin(mean), JsMul[z, Fin(std)]]]

\* Math.pow(10, logQest) on the Qest of a result computed in log space.
BackToOriginalScale[r \in FrequencyResults] ==
    [Kt |-> r.Kt, Qest |-> JsPow10[r.Qest]]

\* FrequencyAnalysis._calculateLogNormal
CalculateLogNormal[mean \in Int, std \in Int, z \in JsNum] ==
    BackToOriginalScale[CalculateNormal[mean, std, z]]

\* _calculatePearsonType3: the Wilson-Hilferty factor, in this method's order of
\* operations (the divisions by 3 come last in their terms).
FreqWilsonHilferty[z \in Int, cs \in Int] ==
    LET k  == Div(cs, OfInt(6))
        z2 == Mul(z, z)
        k2 == Mul(Div(cs, OfInt(6)), Div(cs, OfInt(6)))
    IN  z + Mul(z2 - Unit, k)
          + Div(Mul(Mul(z, z2 - OfInt(6)), k2), OfInt(3))
          - Mul(Mul(z2 - Unit, k2), k)
          + Mul(Mul(z, k2), k2)
          + Div(Mul(Mul(k2, k2), k), OfInt(3))

FreqPearsonKt[z \in JsNum, cs \in Int] ==
    IF IsNaN(z) THEN JsNaN ELSE Fin(FreqWilsonHilferty[z.v, cs])

PearsonResult[mean \in Int, std \in Int, Kt \in JsNum, tau \in Int] ==
    [Kt |-> Kt, Qest |-> JsAdd[JsAdd[Fin(mean), JsMul[Fin(std), Kt]], Fin(tau)]]

\* FrequencyAnalysis._calculatePearsonType3
CalculatePearsonType3[mean \in Int, std \in Int, cs \in Int, z \in JsNum, tau \in Int] ==
    PearsonResult[mean, std, FreqPearsonKt[z, cs], tau]

\* FrequencyAnalysis._calculateLogPearsonType3
CalculateLogPearsonType3[mean \in Int, std \in Int, cs \in Int, z \in JsNum, tau \in Int] ==
    BackToOriginalScale[CalculatePearsonType3[mean, std, cs, z, tau]]

GumbelResult[mode \in Int, alpha \in Int, Kt \in JsNum] ==
    [Kt |-> Kt, Qest |-> JsAdd[Fin(mode), JsMul[Fin(alpha), Kt]]]

\* FrequencyAnalysis._calculateExtremeValueType1
CalculateExtremeValueType1[mean \in Int, std \in Int, px \in Int] ==
    GumbelResult[mean - Mul(Lit(577200), Mul(Lit(779700), std)),
                 Mul(Lit(779700), std), Extreme[px]]

\* freq: the message of the default branch's Error, which the source writes in
\* Chinese and ends with the code; here in translation and without the code.
FreqUnsupportedMessage == "Unsupported distribution type (freq)"

\* A switch whose default branch does not throw.
FreqNeverThrows(distType) == FALSE

\* freq: the default branch of the switch throws.
FreqThrows(distType) ==
    distType \notin {Normal, LogNormal, PearsonType3, LogPearsonType3,
                     ExtremeValueType1}

\* freq: the switch on distType (tau is fixed at 0).
FreqDispatch[distType \in Int, stats \in StatisticsObjects, px \in Int, z \in JsNum] ==
    IF distType = Normal THEN CalculateNormal[stats.M, stats.SD, z]
    ELSE IF distType = LogNormal THEN CalculateLogNormal[stats.M, stats.SD, z]
    ELSE IF distType = PearsonType3
         THEN CalculatePearsonType3[stats.M, stats.SD, stats.Cs, z, 0]
    ELSE IF distType = LogPearsonType3
         THEN CalculateLogPearsonType3[stats.M, stats.SD, stats.Cs, z, 0]
    ELSE CalculateExtremeValueType1[stats.M, stats.SD, px]

\* An exceedance probability kept below 1.
ExceedanceClamped(T) == IF Div(Unit, T) >= Unit THEN Unit - 1 ELSE Div(Unit, T)

\* px = 1.0 / T
ExceedanceOf(T) == Div(Unit, T)

\* freq over a statistics without its guard for n = 0: the mean of an empty
\* sample is 0 / 0, and the estimate NaN.
freqWithoutEmptyGuard(distType, y, T) ==
    IF Len(y) = 0
    THEN [Kt |-> Look(Unit - ExceedanceOf(T)), Qest |-> JsNaN]
    ELSE FreqDispatch[distType,
                      statistics[IF RequiresLog(distType) THEN LogTransform[y] ELSE y],
                      ExceedanceOf(T), Look(Unit - ExceedanceOf(T))]

\* FrequencyAnalysis.freq, for a distribution code the switch knows.
freq(distType, y, T) ==
    FreqDispatch[distType,
                 statistics[IF RequiresLog(distType) THEN LogTransform[y] ELSE y],
                 ExceedanceOf(T), Look(Unit - ExceedanceOf(T))]

(***************************************************************************)
(* ChiSquareTest                                                           *)
(***************************************************************************)
\* ChiSquareTest.ConfidenceLevelString
ConfidenceLevelString == <<"85%", "90%", "95%", "97.5%", "99%">>

\* arr[index] of a 0-based array of strings; undefined outside the array.
StringAt(arr, index) ==
    IF index >= 0 /\ index < Len(arr) THEN arr[index + 1] ELSE "undefined"

\* ChiSquareTest.Chi2Table: rows df = 1..20, columns confidence index 0..4,
\* in thousandths.
Chi2TableMilli ==
    << <<1320, 2706, 3841, 5020, 6630>>,       <<2775, 4605, 5991, 7380, 9210>>,
       <<4111, 6251, 7815, 9350, 11300>>,      <<5390, 7779, 9488, 11100, 13300>>,
       <<6630, 9236, 11070, 12800, 15100>>,    <<7840, 10645, 12592, 14400, 16800>>,
       <<9040, 12017, 14067, 16000, 18500>>,   <<10202, 13362, 15507, 17500, 20100>>,
       <<11400, 14684, 16919, 19000, 21700>>,  <<12500, 15987, 18307, 20500, 23200>>,
       <<13700, 17275, 19675, 21900, 24700>>,  <<14800, 18549, 21026, 23300, 26200>>,
       <<16000, 19812, 22362, 24700, 27700>>,  <<17100, 21064, 23685, 26100, 29100>>,
       <<18200, 22307, 24996, 27500, 30600>>,  <<19400, 23542, 26296, 28800, 32000>>,
       <<20500, 24769, 27587, 30200, 33400>>,  <<21600, 25989, 28869, 31500, 34800>>,
       <<22700, 27204, 30144, 32900, 36200>>,  <<23800, 28412, 31410, 34200, 37600>> >>

Chi2Table == [df \in 1..Len(Chi2TableMilli) |->
                 [c \in 1..5 |-> Lit(Chi2TableMilli[df][c] * 1000)]]

\* The guard without its upper limit.
Chi2IndexInvalidLowOnly(confidenceIndex) == confidenceIndex < 0

\* chi2Test: the guard of the soft failure.
Chi2IndexInvalid(confidenceIndex) ==
    confidenceIndex < 0 \/ confidenceIndex >= Len(ConfidenceLevelString)

\* chi2Test: the object returned for an invalid confidence index.
Chi2SoftFailure(confidenceIndex) ==
    [kind |-> "soft failure", ConfidenceLevel |-> ToString(confidenceIndex),
     Conclusion |-> "Confidence index is invalid! Must be between [0, 4]",
     fitted |-> FALSE]

\* Math.round on a fixed-point x, as an integer.
Round(x) == (x + (Unit \div 2)) \div Unit

\* The interval count with the product cut off instead of rounded.
IntervalCountTruncated(n) ==
    IF n = 0 THEN JsNegInf
    ELSE [k |-> "fin", v |-> 1 + (Mul(Lit(3300000), Log10(OfInt(n))) \div Unit)]

\* chi2Test: 1 + Math.round(3.3 * Math.log10(data.length)); log10(0) is -Infinity.
IntervalCount(n) ==
    IF n = 0 THEN JsNegInf
    ELSE [k |-> "fin", v |-> 1 + Round(Mul(Lit(3300000), Log10(OfInt(n))))]

\* An array constructor that objects to a negative size only.
CreateChi2ResultsThrowsOnNegative(intervalCount) ==
    IsFin(intervalCount) /\ intervalCount.v + 1 < 0

\* _createChi2Results: new Array(intervalCount + 1) throws a RangeError unless
\* the size is a non-negative integer.
CreateChi2ResultsThrows(intervalCount) ==
    ~IsFin(intervalCount) \/ intervalCount.v + 1 < 0

\* _divideIntoBins: hi_i, the upper edge of an interval i < intervalCount; a code
\* the switch does not know leaves hi_i = 0.
BinUpperEdge[distType \in Int, i \in Int, intervalCount \in Int, mean \in Int, std \in Int, skew \in Int] ==
    IF distType = Normal \/ distType = LogNormal
    THEN mean + Mul(std, Look(RDiv[OfInt(i), intervalCount]).v)
    ELSE IF distType = PearsonType3 \/ distType = LogPearsonType3
    THEN mean + Mul(std, WilsonHilferty[Look(RDiv[OfInt(i), intervalCount]).v,
                                        skew])
    ELSE IF distType = ExtremeValueType1
    THEN (mean - Mul(Lit(577200), Mul(Lit(779700), std)))
         + Mul(Mul(Lit(779700), std),
               Extreme[Unit - RDiv[OfInt(i), intervalCount]].v)
    ELSE 0

\* _divideIntoBins: results.hi[1..intervalCount] and results.lo[1..intervalCount]
\* (slot 0 of the source's 1-based arrays stays 0 and is left out).
BinHi[distType \in Int, intervalCount \in Int, stats \in StatisticsObjects] ==
    [i \in 1..intervalCount |->
        IF i < intervalCount
        THEN BinUpperEdge[distType, i, intervalCount, stats.M, stats.SD, stats.Cs]
        ELSE stats.Xmax + OfInt(2)]

BinLo[hi \in Seq(Int), low \in Int] ==
    [i \in 1..Len(hi) |-> IF i > 1 THEN hi[i - 1] ELSE low - OfInt(2)]

\* Counting with the edges included.
InBinClosed(value, lo, hi) == value >= lo /\ value <= hi

\* _countFrequencies: is value counted in the interval (lo, hi)?
InBin(value, lo, hi) == value > lo /\ value < hi

\* _countFrequencies: results.o[1..intervalCount]
countFrequencies[values \in Seq(Int), lo \in Seq(Int), hi \in Seq(Int)] ==
    [i \in 1..Len(hi) |->
        Cardinality({j \in 1..Len(values) : InBin(values[j], lo[i], hi[i])})]

\* The arrays lo, hi and o of a results object.
BinArrays == [lo : Seq(Int), hi : Seq(Int), o : Seq(Int)]

\* _divideIntoBins
Bins[transformedData \in Seq(Int), lo \in Seq(Int), hi \in Seq(Int)] ==
    [lo |-> lo, hi |-> hi, o |-> countFrequencies[transformedData, lo, hi]]

BinsOfHi[transformedData \in Seq(Int), low \in Int, hi \in Seq(Int)] ==
    Bins[transformedData, BinLo[hi, low], hi]

BinsOfStats[transformedData \in Seq(Int), intervalCount \in Int, distType \in Int, stats \in StatisticsObjects] ==
    BinsOfHi[transformedData, stats.Xmin, BinHi[distType, intervalCount, stats]]

BinsOfTransformed[transformedData \in Seq(Int), intervalCount \in Int, distType \in Int] ==
    BinsOfStats[transformedData, intervalCount, distType, statistics[transformedData]]

divideIntoBins(sortedData, intervalCount, distType) ==
    BinsOfTransformed[IF RequiresLog(distType)
                      THEN LogTransform[sortedData] ELSE sortedData,
                      intervalCount, distType]

\* Every distribution taken to have two estimated parameters.
DegreesOfFreedomTwoParameters(distType, intervalCount) ==
    IF intervalCount - 3 > 1 THEN intervalCount - 3 ELSE 1

\* _calculateChiSquare: the switch that sets df, then Math.max(1, df).
DegreesOfFreedom(distType, intervalCount) ==
    LET df == IF distType = ExtremeValueType1 THEN intervalCount - 3
              ELSE IF distType = LogPearsonType3 THEN intervalCount - 4
              ELSE IF distType = Normal \/ distType = LogNormal
                   THEN intervalCount - 3
              ELSE IF distType = PearsonType3 THEN intervalCount - 4
              ELSE 1
    IN  IF df > 1 THEN df ELSE 1

\* The table read one row further down.
CriticalValueNextRow(df, confidenceIndex) ==
    IF df > 0 /\ df < Len(Chi2Table)
    THEN ArrayGet(Chi2Table[df + 1], confidenceIndex)
    ELSE JsPosInf

\* _calculateChiSquare: the critical value, Infinity beyond the table.
CriticalValue(df, confidenceIndex) ==
    IF df > 0 /\ df <= Len(Chi2Table)
    THEN ArrayGet(Chi2Table[df], confidenceIndex)
    ELSE JsPosInf

\* The sample shared out over the length of the 1-based arrays.
ExpectedCountOverArrayLength(n, intervalCount) ==
    Div(OfInt(n), OfInt(intervalCount + 1))

\* _calculateChiSquare: results.e[i] and the terms of the statistic.
ExpectedCount(n, intervalCount) == Div(OfInt(n), OfInt(intervalCount))

Chi2Term[o \in Int, e \in Int] == Div(Mul(OfInt(o) - e, OfInt(o) - e), e)

Chi2Stat[o \in Seq(Int), e \in Int] == SumSeq[[i \in 1..Len(o) |-> Chi2Term[o[i], e]]]

\* The comparison with its operands exchanged.
Chi2FittedSwapped(chi2Stat, criticalValue) == JsLt[criticalValue, Fin(chi2Stat)]

\* _calculateChiSquare: results.fitted = chi2Stat < criticalValue
Chi2Fitted(chi2Stat, criticalValue) == JsLt[Fin(chi2Stat), criticalValue]

\* _calculateChiSquare: the results object.
Chi2Results[bins \in BinArrays, e \in Int, chi2Stat \in Int, criticalValue \in JsNum, confidenceIndex \in Int] ==
    [kind |-> "results",
     lo |-> bins.lo, hi |-> bins.hi, o |-> bins.o,
     e |-> [i \in 1..Len(bins.o) |-> e],
     ConfidenceLevel |-> StringAt(ConfidenceLevelString, confidenceIndex),
     EstChi2Value |-> criticalValue,
     ObsChi2Value |-> chi2Stat,
     fitted |-> Chi2Fitted(chi2Stat, criticalValue)]

Chi2OfBins[bins \in BinArrays, e \in Int, criticalValue \in JsNum, confidenceIndex \in Int] ==
    Chi2Results[bins, e, Chi2Stat[bins.o, e], criticalValue, confidenceIndex]

calculateChiSquare(sortedData, intervalCount, confidenceIndex, distType) ==
    Chi2OfBins[divideIntoBins(sortedData, intervalCount, distType),
               ExpectedCount(Len(sortedData), intervalCount),
               CriticalValue(DegreesOfFreedom(distType, intervalCount),
                             confidenceIndex),
               confidenceIndex]

(***************************************************************************)
(* RainUtils.statistics in binary floating point                           *)
(*                                                                         *)
(* The fixed-point arithmetic above adds exactly.  JavaScript numbers are  *)
(* binary floating point: every operation rounds its exact result to the   *)
(* nearest number of the format, ties to even.  Here the format has a      *)
(* significand of MantissaBits bits and the quantum 1 at the bottom, so    *)
(* that its numbers are the integers of at most MantissaBits significant   *)
(* bits.                                                                   *)
(***************************************************************************)
\* Bits of the significand.
MantissaBits == 4

\* The spacing of the format's numbers at the magnitude v >= 0.
FlQuantum[v \in Nat] == IF v < 2 ^ MantissaBits THEN 1 ELSE 2 * FlQuantum[v \div 2]

\* a / b for a >= 0, b > 0, rounded to the nearest integer, ties to even.
HalfEven[a \in Nat, b \in Nat] ==
    IF 2 * (a % b) < b THEN a \div b
    ELSE IF 2 * (a % b) > b THEN (a \div b) + 1
    ELSE IF (a \div b) % 2 = 0 THEN a \div b
    ELSE (a \div b) + 1

FlRoundPositive[a \in Nat, b \in Nat, g \in Nat] == g * HalfEven[a, b * g]

\* The number of the format nearest to a / b, b > 0.
FlRound[a \in Int, b \in Int] ==
    IF a < 0 THEN -FlRoundPositive[-a, b, FlQuantum[(-a) \div b]]
    ELSE FlRoundPositive[a, b, FlQuantum[a \div b]]

\* x + y, x - y, x * y and x / y (y # 0).
FlAdd(x, y) == FlRound[x + y, 1]

FlSub(x, y) == FlRound[x - y, 1]

FlMul(x, y) == FlRound[x * y, 1]

FlDiv(x, y) == IF y < 0 THEN FlRound[-x, -y] ELSE FlRound[x, y]

\* Math.sqrt(x), x >= 0.
FlSqrt(x) == FlRound[SqrtNearest[x, SqrtIter[x, 0, 46340]], 1]

\* Math.pow(x, 2), Math.pow(x, 3) and Math.pow(x, 1.5) for x >= 0.
FlSquare(x) == FlRound[x * x, 1]

FlCube(x) == FlRound[x * x * x, 1]

FlPowThreeHalves(x) == FlSqrt(x * x * x)

\* statistics: X.reduce((acc, val) => acc + val, 0), from the left.
FlSum[X \in Seq(Int)] ==
    IF X = <<>> THEN 0 ELSE FlAdd(FlSum[SubSeq(X, 1, Len(X) - 1)], X[Len(X)])

\* statistics: sumSqDiff and sumCubeDiff after the loop over X.
FlSumSqDiff[X \in Seq(Int), mean \in Int] ==
    IF X = <<>> THEN 0
    ELSE FlAdd(FlSumSqDiff[SubSeq(X, 1, Len(X) - 1), mean],
               FlSquare(FlSub(X[Len(X)], mean)))

FlSumCubeDiff[X \in Seq(Int), mean \in Int] ==
    IF X = <<>> THEN 0
    ELSE FlAdd(FlSumCubeDiff[SubSeq(X, 1, Len(X) - 1), mean],
               FlCube(FlSub(X[Len(X)], mean)))

\* statistics: the skewness from M2 and M3.
FlSkewness[n \in Int, M2 \in Int, M3 \in Int] ==
    IF n > 2 /\ M2 > 0
    THEN FlMul(FlDiv(FlSqrt(n * (n - 1)), n - 2), FlDiv(M3, FlPowThreeHalves(M2)))
    ELSE 0

FlStatisticsObject[n \in Int, sortedX \in Seq(Int), mean \in Int, stdDev \in Int, skewness \in Int] ==
    [Xmin |-> sortedX[1], Xmax |-> sortedX[n], M |-> mean, SD |-> stdDev,
     Cv |-> IF mean # 0 THEN FlDiv(stdDev, mean) ELSE 0, Cs |-> skewness]

FlStatisticsOfSums[X \in Seq(Int), n \in Int, mean \in Int, sumSqDiff \in Int, sumCubeDiff \in Int] ==
    FlStatisticsObject[n, SortAsc[X], mean,
                       FlSqrt(IF n > 1 THEN FlDiv(sumSqDiff, n - 1) ELSE 0),
                       FlSkewness[n, FlDiv(sumSqDiff, n), FlDiv(sumCubeDiff, n)]]

FlStatisticsOfMean[X \in Seq(Int), n \in Int, mean \in Int] ==
    FlStatisticsOfSums[X, n, mean, FlSumSqDiff[X, mean], FlSumCubeDiff[X, mean]]

\* RainUtils.statistics
FlStatistics[X \in Seq(Int)] ==
    IF Len(X) = 0
    THEN [Xmin |-> 0, Xmax |-> 0, M |-> 0, SD |-> 0, Cv |-> 0, Cs |-> 0]
    ELSE FlStatisticsOfMean[X, Len(X), FlDiv(FlSum[X], Len(X))]

\* Samples of floating-point numbers with a full significand.
FloatValues == (2 ^ (MantissaBits - 1))..(2 ^ MantissaBits - 1)

\* Half the number of equal steps the unit interval is cut into.
LookHalfSteps == 20

\* The arguments of Look: the steps of [0, 1], 0.5 among them, and one step beyond each end.
LookProbabilities == {(k * Unit) \div (2 * LookHalfSteps) : k \in (-1)..(2 * LookHalfSteps + 1)}

\* Longest array of estimates.
MaxEstimates == 4

\* The estimates, and the values looked up among them.
EstimateValues == 1..3

QueryValues == 0..4

\* The non-decreasing arrays of 1 to MaxEstimates estimates.
EstimateArrays ==
    UNION {{q \in [1..n -> EstimateValues] : \A i \in 1..(n - 1) : q[i] <= q[i + 1]} : n \in 1..MaxEstimates}

\* The elements of Global_FreqResults: objects with an array of estimates, or
\* without one.
EstimateRows ==
    {[isArray |-> TRUE, estmateResults |-> q] : q \in EstimateArrays}
        \cup {[isArray |-> FALSE, estmateResults |-> << >>]}

\* Global_FreqResults, for one distribution and for two.
EstimateTables == {<<a>> : a \in EstimateRows} \cup {<<a, b>> : a \in EstimateRows, b \in EstimateRows}

\* Longest sample of floating-point numbers.
MaxFloatN == 3

FloatSamples == UNION {[1..n -> FloatValues] : n \in 0..MaxFloatN}

(***************************************************************************)
(* FindReturnPeriod                                                        *)
(***************************************************************************)
\* FindReturnPeriod.RpStr
RpStr == <<"<1.11", "1.11~2", "2~5", "5~10", "10~20", "20~25", "25~50", "50~100", "100~200", "200~500", ">500">>

\* The unit the labels end with, which the source writes as the character for
\* "year".
YearSuffix == " years"

\* this.RpStr[k] + the unit
RpLabel(k) == StringAt(RpStr, k) \o YearSuffix

\* findReturnPeriod: the loop for (i = 1; i < last; i++) if (value < q[i]) break;
\* and the i it ends with.
FindLoop[value \in Int, q \in Seq(Int), i \in Int, last \in Int] ==
    IF i < last
    THEN IF value < q[i + 1] THEN i ELSE FindLoop[value, q, i + 1, last]
    ELSE i

\* The same search with the loop running one element further, to i < n.
findReturnPeriodPastEnd(value, q) ==
    IF Len(q) > 0 /\ value < q[1] THEN RpLabel(0)
    ELSE IF Len(q) > 0 /\ value > q[Len(q)] THEN RpLabel(Len(q))
    ELSE RpLabel(FindLoop[value, q, 1, Len(q)])

\* FindReturnPeriod.findReturnPeriod; the comparisons with q[0] and q[n - 1]
\* are false on an empty q, whose elements are undefined.
findReturnPeriod(value, q) ==
    IF Len(q) > 0 /\ value < q[1] THEN RpLabel(0)
    ELSE IF Len(q) > 0 /\ value > q[Len(q)] THEN RpLabel(Len(q))
    ELSE RpLabel(FindLoop[value, q, 1, Len(q) - 1])

\* findRP: Array.isArray(dist.estmateResults) ? dist.estmateResults : []
EstimatesOf(dist) == IF dist.isArray THEN dist.estmateResults ELSE << >>

\* FindReturnPeriod.findRP over this.data
findRP(rows, value) ==
    [i \in 1..Len(rows) |-> findReturnPeriod(value, EstimatesOf(rows[i]))]

(***************************************************************************)
(* Bounds and inputs                                                       *)
(***************************************************************************)
\* Longest sample.
MaxN == 3

\* The values a sample is drawn from: 0 (clamped by the log transform), 1 and 2.
SampleValues == {0, OfInt(1), OfInt(2)}

Samples == UNION {[1..n -> SampleValues] : n \in 0..MaxN}

\* Samples of one value repeated and one value far from it, first or last:
\* long enough for four intervals, and far enough for the fitted quantiles to
\* pass the padded ends min - 2 and max + 2.
SkewedLen == 6

SkewedValues == {0, OfInt(10), OfInt(20)}

SkewedSamples ==
    {[i \in 1..SkewedLen |-> IF i = j THEN far ELSE near] :
        j \in {1, SkewedLen}, far \in SkewedValues, near \in SkewedValues}

\* Largest number of intervals handed to _calculateChiSquare (the table of
\* critical values ends at df = 20, which is 23 or 24 intervals).
MaxIntervalCount == 25

IntervalCounts == 1..MaxIntervalCount

\* Distribution codes: the five of DistributionType and two unrecognized ones.
DistCodes == 0..6

\* Confidence-level indexes: the five valid ones and one beyond either end.
ConfidenceIndexes == -1..5

\* Return periods T (years): 1, 2, 5 and 100.
\* A return period so long that 1 / T is below half the resolution of the
\* arithmetic, so that 1 - 1 / T evaluates to 1.
LongReturnPeriod == OfInt(10 * Unit)

ReturnPeriods == {OfInt(1), OfInt(2), OfInt(5), OfInt(100), LongReturnPeriod}

(***************************************************************************)
(* Page controller (DrawRainIntensity.js, window.onload) and UIManager      *)
(***************************************************************************)
\* What the CSV input box can hold: nothing but whitespace, a header line
\* alone, or a header line followed by rows.
BlankText == ""

HeaderOnlyText == "time,value"

RowsText == "time,value;2020/01/01 00:00,10"

PageTexts == {BlankText, HeaderOnlyText, RowsText}

\* ReadRainData.parseCSV(text): the array of the lines after the header, as
\* its length class; null is what its catch block returns, which no string
\* argument reaches.
parseCSV(text) == IF text = RowsText THEN "rows" ELSE "empty"

\* Run Analysis cycles followed on the page
MaxCycles == 3

\* File reads in flight at a time
MaxReads == 1

\* The page when window.onload has returned: nothing typed, nothing parsed
\* (let data), no handler bound by UIManager yet. The Run Analysis button
\* starts disabled, the state every handler puts it in until a CSV text has
\* been processed.
NewPage ==
    [csvInput |-> BlankText, badge |-> "", runDisabled |-> TRUE,
     data |-> "undefined", shownHandlers |-> 0, reads |-> 0,
     changeHandlers |-> 0, clickHandlers |-> 0,
     processed |-> FALSE, cycles |-> 0, last |-> "load",
     recomputations |-> 0, lookups |-> 0]

\* csvInput's 'input' listener: a changed text invalidates what was processed
InputEdited(p, text) ==
    [p EXCEPT !.csvInput = text, !.badge = "", !.runDisabled = TRUE,
              !.processed = FALSE, !.last = "input"]

\* processCsvBtn's 'click' listener
ProcessClicked(p) ==
    IF p.csvInput = BlankText
    THEN [p EXCEPT !.badge = "empty", !.runDisabled = TRUE, !.last = "process"]
    ELSE IF parseCSV(p.csvInput) # "null"
         THEN [p EXCEPT !.badge = "ok", !.data = parseCSV(p.csvInput),
                        !.runDisabled = FALSE, !.processed = TRUE,
                        !.last = "process"]
         ELSE [p EXCEPT !.badge = "error", !.runDisabled = TRUE,
                        !.last = "process"]

\* UIManager.init(data): returns early on an empty array; otherwise binds one
\* more 'click' listener (setupReturnPeriodFinder) and one more 'change'
\* listener (bindEventListeners), none is ever unbound, and triggers 'change',
\* which runs every 'change' listener bound so far.
UIManagerInit(p) ==
    IF p.data # "rows"
    THEN p
    ELSE [p EXCEPT !.clickHandlers = @ + 1, !.changeHandlers = @ + 1,
                   !.recomputations = p.changeHandlers + 1]

\* The one-shot 'shown.bs.tab' listener registered by a Run Analysis click:
\* UIManager.init(data) and, in its finally block, the button enabled again.
ShownHandler(p) ==
    [UIManagerInit(p) EXCEPT !.runDisabled = FALSE, !.cycles = @ + 1]

\* The 'shown.bs.tab' event: every listener registered with .one() runs, in
\* order, and is removed.
RECURSIVE ShownEvent(_, _)
ShownEvent(p, pending) ==
    IF pending = 0
    THEN [p EXCEPT !.shownHandlers = 0, !.last = "shown"]
    ELSE ShownEvent(ShownHandler(p), pending - 1)

(***************************************************************************)
(* State                                                                   *)
(***************************************************************************)
VARIABLES
    data,      \* the caller's sample array
    ks,        \* the caller's KSTest instance, or NoInstance
    pc,        \* "idle", "runTest" (inside the rank loop), "returned", "threw"
    call,      \* the call in progress or just completed
    loc,       \* runTest's locals while its loop runs
    results,   \* runTest's results object while its loop runs
    ret,       \* what the completed call returned or threw
    kept,      \* the outcome of an earlier call that the caller has kept
    page       \* the page controller: input box, buttons, bound handlers

vars == <<data, ks, pc, call, loc, results, ret, kept, page>>

NoCall == [op |-> "none"]

NoLocals == [N |-> 0]

NoResults == [none |-> TRUE]

NoReturn == [kind |-> "none"]

NoKept == [none |-> TRUE]

Thrown(message) == [kind |-> "error", message |-> message]

Returned(value) == [kind |-> "value", value |-> value]

Init ==
    /\ data \in Samples
    /\ ks = NoInstance
    /\ pc = "idle"
    /\ call = NoCall
    /\ loc = NoLocals
    /\ results = NoResults
    /\ ret = NoReturn
    /\ kept = NoKept
    /\ page = NewPage

\* new KSTest(c)
NewKSTest(c) ==
    /\ pc = "idle"
    /\ call' = [op |-> "new KSTest", confidenceLevelIndex |-> c]
    /\ IF KSCtorThrows(c)
       THEN /\ pc' = "threw"
            /\ ret' = Thrown("Invalid confidenceLevelIndex.")
            /\ ks' = ks
       ELSE /\ pc' = "returned"
            /\ ret' = NoReturn
            /\ ks' = KSNewInstance(c)
    /\ UNCHANGED <<data, loc, results, kept, page>>

\* ks.runTest(distType, data): from the call to the first test of the loop.
RunTestBegin(distType) ==
    /\ pc = "idle"
    /\ ks.exists
    /\ call' = [op |-> "runTest", distType |-> distType]
    /\ IF RunTestThrowsEmpty(Len(data))
       THEN /\ pc' = "threw"
            /\ ret' = Thrown("Input data array cannot be empty.")
            /\ UNCHANGED <<data, ks, loc, results, page>>
       ELSE \E l \in {RunTestLocals(ks.alpha.v, distType, data)} :
                /\ loc' = l
                /\ data' = ArgumentAfterSortDescending(data)
                /\ ks' = InstanceAfterRunTest(ks, l.Ca)
                /\ IF 1 <= l.N
                   THEN /\ pc' = "runTest"
                        /\ results' = RunTestResults(l)
                        /\ ret' = ret
                   ELSE /\ pc' = "returned"
                        /\ results' = NoResults
                        /\ ret' = Returned(RunTestResults(l))
    /\ UNCHANGED <<kept, page>>

\* ks.runTest: one round of the loop, and the return after the last one.
RunTestRank ==
    /\ pc = "runTest"
    /\ \E z \in {RunTestRankZ(call.distType, loc)} :
           IF z.thrown
           THEN /\ pc' = "threw"
                /\ ret' = Thrown("Unsupported distribution type")
                /\ results' = NoResults
                /\ loc' = NoLocals
           ELSE \E r \in {RunTestRankResults(results, loc, z)} :
                    IF loc.i + 1 <= loc.N
                    THEN /\ pc' = "runTest"
                         /\ results' = r
                         /\ loc' = [loc EXCEPT !.i = loc.i + 1]
                         /\ ret' = ret
                    ELSE /\ pc' = "returned"
                         /\ results' = NoResults
                         /\ loc' = NoLocals
                         /\ ret' = Returned(r)
    /\ UNCHANGED <<data, ks, call, kept, page>>

\* The caller takes the outcome of the completed call and goes on.
Done ==
    /\ pc \in {"returned", "threw"}
    /\ pc' = "idle"
    /\ call' = NoCall
    /\ ret' = NoReturn
    /\ loc' = NoLocals
    /\ results' = NoResults
    /\ UNCHANGED <<data, ks, kept, page>>

\* The caller keeps the outcome of the completed call, to compare a later one
\* with it, and goes on.
DoneKeeping ==
    /\ pc \in {"returned", "threw"}
    /\ kept' = [call |-> call, ret |-> ret,
                confidenceLevelIndex |->
                    IF ks.exists THEN ks.confidenceLevelIndex ELSE -1]
    /\ pc' = "idle"
    /\ call' = NoCall
    /\ ret' = NoReturn
    /\ loc' = NoLocals
    /\ results' = NoResults
    /\ UNCHANGED <<data, ks, page>>

\* chi2Test(distType, data, confidenceIndex)
Chi2Test(distType, confidenceIndex) ==
    /\ pc = "idle"
    /\ call' = [op |-> "chi2Test", distType |-> distType,
                confidenceIndex |-> confidenceIndex]
    /\ IF Chi2IndexInvalid(confidenceIndex)
       THEN /\ pc' = "returned"
            /\ ret' = Returned(Chi2SoftFailure(confidenceIndex))
            /\ data' = data
       ELSE IF CreateChi2ResultsThrows(IntervalCount(Len(data)))
       THEN /\ pc' = "threw"
            /\ ret' = Thrown("RangeError: Invalid array length")
            /\ data' = ArgumentAfterSort(data)
       ELSE /\ pc' = "returned"
            /\ ret' = Returned(calculateChiSquare(SortAsc[data],
                                   IntervalCount(Len(data)).v, confidenceIndex,
                                   distType))
            /\ data' = ArgumentAfterSort(data)
    /\ UNCHANGED <<ks, loc, results, kept, page>>

\* this._calculateChiSquare(sortedData, intervalCount, confidenceIndex, distType)
\* as chi2Test calls it for a valid confidence index: sortedData is the sorted
\* sample, and intervalCount is a positive integer only for a non-empty sample.
CalculateChiSquare(distType, intervalCount, confidenceIndex) ==
    /\ pc = "idle"
    /\ Len(data) > 0
    /\ ~Chi2IndexInvalid(confidenceIndex)
    /\ call' = [op |-> "_calculateChiSquare", distType |-> distType,
                intervalCount |-> intervalCount,
                confidenceIndex |-> confidenceIndex]
    /\ pc' = "returned"
    /\ ret' = Returned(calculateChiSquare(SortAsc[data], intervalCount,
                                          confidenceIndex, distType))
    /\ UNCHANGED <<data, ks, loc, results, kept, page>>

\* utils.statistics(data)
Statistics ==
    /\ pc = "idle"
    /\ call' = [op |-> "statistics"]
    /\ pc' = "returned"
    /\ ret' = Returned(statistics[data])
    /\ data' = IF Len(data) = 0 THEN data ELSE ArgumentAfterSort(data)
    /\ UNCHANGED <<ks, loc, results, kept, page>>

\* utils.statistics(data) on a sample of floating-point numbers.
StatisticsFloat ==
    /\ pc = "idle"
    /\ call' = [op |-> "statistics"]
    /\ pc' = "returned"
    /\ ret' = Returned(FlStatistics[data])
    /\ data' = IF Len(data) = 0 THEN data ELSE ArgumentAfterSort(data)
    /\ UNCHANGED <<ks, loc, results, kept, page>>

\* fa.freq(distType, data, T)
Freq(distType, T) ==
    /\ pc = "idle"
    /\ call' = [op |-> "freq", distType |-> distType, T |-> T]
    /\ IF FreqThrows(distType)
       THEN /\ pc' = "threw"
            /\ ret' = Thrown(FreqUnsupportedMessage)
       ELSE /\ pc' = "returned"
            /\ ret' = Returned(freq(distType, data, T))
    /\ UNCHANGED <<data, ks, loc, results, kept, page>>

NextKS ==
    \/ \E c \in ConfidenceIndexes : NewKSTest(c)
    \/ \E d \in DistCodes : RunTestBegin(d)
    \/ RunTestRank
    \/ Done

SpecKS == Init /\ [][NextKS]_vars

NextChi ==
    \/ \E d \in DistCodes, c \in ConfidenceIndexes : Chi2Test(d, c)
    \/ Done

SpecChi == Init /\ [][NextChi]_vars

\* chi2Test on the short samples and on the skewed ones
InitSkewed ==
    /\ data \in Samples \cup SkewedSamples
    /\ ks = NoInstance
    /\ pc = "idle"
    /\ call = NoCall
    /\ loc = NoLocals
    /\ results = NoResults
    /\ ret = NoReturn
    /\ kept = NoKept
    /\ page = NewPage

SpecChiSkewed == InitSkewed /\ [][NextChi]_vars

NextChiCalc ==
    \/ \E d \in DistCodes, k \in IntervalCounts, c \in ConfidenceIndexes :
           CalculateChiSquare(d, k, c)
    \/ Done

SpecChiCalc == Init /\ [][NextChiCalc]_vars

NextFreq ==
    \/ \E d \in DistCodes, T \in ReturnPeriods : Freq(d, T)
    \/ Done

SpecFreq == Init /\ [][NextFreq]_vars

\* rainUtils.Look(p)
ApplyLook(p) ==
    /\ pc = "idle"
    /\ call' = [op |-> "Look", p |-> p]
    /\ pc' = "returned"
    /\ ret' = Returned(Look(p))
    /\ loc' = [nested |-> LookNested(p)]
    /\ UNCHANGED <<data, ks, results, kept, page>>

NextLook ==
    \/ \E p \in LookProbabilities : ApplyLook(p)
    \/ Done

SpecLook == Init /\ [][NextLook]_vars

\* new FindReturnPeriod(Global_FreqResults): this.data = Global_FreqResults
InitFind ==
    /\ data \in EstimateTables
    /\ ks = NoInstance
    /\ pc = "idle"
    /\ call = NoCall
    /\ loc = NoLocals
    /\ results = NoResults
    /\ ret = NoReturn
    /\ kept = NoKept
    /\ page = NewPage

\* rpFinder.findRP(value)
FindRP(value) ==
    /\ pc = "idle"
    /\ call' = [op |-> "findRP", value |-> value]
    /\ pc' = "returned"
    /\ ret' = Returned(findRP(data, value))
    /\ UNCHANGED <<data, ks, loc, results, kept, page>>

NextFind ==
    \/ \E v \in QueryValues : FindRP(v)
    \/ Done

SpecFind == InitFind /\ [][NextFind]_vars

InitFloat ==
    /\ data \in FloatSamples
    /\ ks = NoInstance
    /\ pc = "idle"
    /\ call = NoCall
    /\ loc = NoLocals
    /\ results = NoResults
    /\ ret = NoReturn
    /\ kept = NoKept
    /\ page = NewPage

NextFloat ==
    \/ StatisticsFloat
    \/ Done

SpecFloat == InitFloat /\ [][NextFloat]_vars

\* Calls in sequence on shared instances by a caller that keeps outcomes, over
\* a choice of arguments: two valid indexes and an invalid one, a distribution without
\* and one with the log transform and an unknown code, two return periods.
ReentrantIndexes == {0, 2, 5}

ReentrantCodes == {Normal, LogPearsonType3, 6}

ReentrantPeriods == {OfInt(2), OfInt(100)}

NextReentrant ==
    \/ \E c \in ReentrantIndexes : NewKSTest(c)
    \/ \E d \in ReentrantCodes : RunTestBegin(d)
    \/ RunTestRank
    \/ \E d \in ReentrantCodes, c \in ReentrantIndexes : Chi2Test(d, c)
    \/ \E d \in ReentrantCodes, T \in ReentrantPeriods : Freq(d, T)
    \/ Statistics
    \/ Done
    \/ DoneKeeping

SpecReentrant == Init /\ [][NextReentrant]_vars

\* The page: the user edits the input box, picks files, clicks the buttons
\* and uses the duration select and the find button, while file reads and
\* the tab transition complete on their own.
InitPage ==
    /\ data = << >>
    /\ ks = NoInstance
    /\ pc = "idle"
    /\ call = NoCall
    /\ loc = NoLocals
    /\ results = NoResults
    /\ ret = NoReturn
    /\ kept = NoKept
    /\ page = NewPage

\* The user types or pastes in the CSV input box
TypeInput(text) ==
    /\ page' = InputEdited(page, text)
    /\ UNCHANGED <<data, ks, pc, call, loc, results, ret, kept>>

\* Clear button: the box is emptied and an 'input' event dispatched
ClearInput ==
    /\ page' = InputEdited(page, BlankText)
    /\ UNCHANGED <<data, ks, pc, call, loc, results, ret, kept>>

\* File input 'change' with a file chosen: reader.readAsText(file) starts
ChooseFile ==
    /\ page.reads < MaxReads
    /\ page' = [page EXCEPT !.reads = @ + 1, !.last = "file"]
    /\ UNCHANGED <<data, ks, pc, call, loc, results, ret, kept>>

\* reader.onload: the file's text replaces the box's and an 'input' event
\* is dispatched
FileLoaded(text) ==
    /\ page.reads > 0
    /\ page' = [InputEdited(page, text) EXCEPT !.reads = @ - 1]
    /\ UNCHANGED <<data, ks, pc, call, loc, results, ret, kept>>

\* reader.onerror: an alert, the box untouched
FileFailed ==
    /\ page.reads > 0
    /\ page' = [page EXCEPT !.reads = @ - 1, !.last = "alert"]
    /\ UNCHANGED <<data, ks, pc, call, loc, results, ret, kept>>

\* Click on Process CSV
ProcessClick ==
    /\ page' = ProcessClicked(page)
    /\ UNCHANGED <<data, ks, pc, call, loc, results, ret, kept>>

\* Click on Run Analysis, which a disabled button does not deliver
RunClick ==
    /\ ~page.runDisabled
    /\ page.cycles + page.shownHandlers < MaxCycles
    /\ page' = IF page.data = "undefined"
               THEN [page EXCEPT !.last = "alert"]
               ELSE [page EXCEPT !.runDisabled = TRUE,
                                 !.shownHandlers = @ + 1, !.last = "run"]
    /\ UNCHANGED <<data, ks, pc, call, loc, results, ret, kept>>

\* The chart tab has become visible
ShownTab ==
    /\ page.shownHandlers > 0
    /\ page' = ShownEvent(page, page.shownHandlers)
    /\ UNCHANGED <<data, ks, pc, call, loc, results, ret, kept>>

\* The user picks another duration in the select
ChangeDuration ==
    /\ page' = [page EXCEPT !.recomputations = page.changeHandlers,
                            !.last = "change"]
    /\ UNCHANGED <<data, ks, pc, call, loc, results, ret, kept>>

\* The user clicks the find-return-period button with a valid rainfall value
ClickFind ==
    /\ page' = [page EXCEPT !.lookups = page.clickHandlers, !.last = "click"]
    /\ UNCHANGED <<data, ks, pc, call, loc, results, ret, kept>>

NextPage ==
    \/ \E text \in PageTexts : TypeInput(text)
    \/ ClearInput
    \/ ChooseFile
    \/ \E text \in PageTexts : FileLoaded(text)
    \/ FileFailed
    \/ ProcessClick
    \/ RunClick
    \/ ShownTab
    \/ ChangeDuration
    \/ ClickFind

SpecPage == InitPage /\ [][NextPage]_vars

Next ==
    \/ \E c \in ConfidenceIndexes : NewKSTest(c)
    \/ \E d \in DistCodes : RunTestBegin(d)
    \/ RunTestRank
    \/ \E d \in DistCodes, c \in ConfidenceIndexes : Chi2Test(d, c)
    \/ \E d \in DistCodes, T \in ReturnPeriods : Freq(d, T)
    \/ Statistics
    \/ Done

Spec == Init /\ [][Next]_vars

(***************************************************************************)
(* Properties of the chi-square test                                       *)
(***************************************************************************)
\* A chi2Test call has returned the results object of _calculateChiSquare.
Chi2Returned ==
    pc = "returned" /\ call.op = "chi2Test" /\ ret.value.kind = "results"

\* The data _countFrequencies counts: sorted, and log-transformed for the two
\* logarithmic distributions.
Chi2Counted ==
    IF RequiresLog(call.distType) THEN LogTransform[SortAsc[data]] ELSE SortAsc[data]

FiveDistributions == {Normal, LogNormal, PearsonType3, LogPearsonType3,
                      ExtremeValueType1}

\* C1: for a non-empty sample, one of the five distributions and a valid
\* confidence index, the observed counts of the result add up to n.
C1_ObservedCountsSumToN ==
    (Chi2Returned /\ call.distType \in FiveDistributions)
        => SumSeq[ret.value.o] = Len(data)

\* C2: the count of bin i is the number of observations v with
\* lo[i] < v < hi[i], both comparisons strict, so that an observation equal to
\* the edge hi[i] = lo[i + 1] of two adjacent bins is in neither count.
C2_StrictOpenInterval ==
    Chi2Returned =>
        \A i \in 1..Len(ret.value.o) :
            ret.value.o[i] =
                Cardinality({j \in 1..Len(data) :
                                /\ ret.value.lo[i] < Chi2Counted[j]
                                /\ Chi2Counted[j] < ret.value.hi[i]})

\* C2 happens: an observation sits on the edge shared by bins 1 and 2 and the
\* counts miss it.
C2_Witness ==
    /\ Chi2Returned
    /\ call.distType = ExtremeValueType1
    /\ Len(ret.value.o) >= 2
    /\ ret.value.hi[1] = ret.value.lo[2]
    /\ \E j \in 1..Len(data) : Chi2Counted[j] = ret.value.hi[1]
    /\ SumSeq[ret.value.o] < Len(data)

\* C3: chi2Test with a confidence index below 0 or above 4 does not throw; for
\* every sample, the empty one included, and every distribution code it returns
\* an object with fitted = false and the diagnostic Conclusion, without bins.
C3_InvalidIndexSoftFailure ==
    (call.op = "chi2Test" /\ call.confidenceIndex \notin 0..4) =>
        /\ pc = "returned"
        /\ ret.kind = "value"
        /\ DOMAIN ret.value \cap {"lo", "hi", "o", "e"} = {}
        /\ "Conclusion" \in DOMAIN ret.value
        /\ ret.value.Conclusion
               = "Confidence index is invalid! Must be between [0, 4]"
        /\ ret.value.fitted = FALSE

\* C3 happens: index 5 with the empty sample.
C3_Witness ==
    /\ call.op = "chi2Test"
    /\ call.confidenceIndex = 5
    /\ data = <<>>
    /\ pc = "returned"
    /\ ret.value.fitted = FALSE

\* C7: chi2Test with a distribution code that is not one of 1..5 (and a valid
\* confidence index, a non-empty sample) throws instead of returning a result.
C7_UnsupportedDistributionThrows ==
    (/\ call.op = "chi2Test"
     /\ call.distType \notin FiveDistributions
     /\ call.confidenceIndex \in 0..4
     /\ Len(data) > 0)
        => pc = "threw"

(***************************************************************************)
(* Properties of the Kolmogorov-Smirnov test                               *)
(***************************************************************************)
\* The results object of runTest is in view: in the loop, or returned.
KSInView == call.op = "runTest" /\ pc \in {"runTest", "returned"}

KSView == IF pc = "runTest" THEN results ELSE ret.value

\* The ranks the loop has completed.
KSRanksDone == 1..Len(KSView.mark)

\* C4: an index outside 0..4 makes the constructor throw, every instance has an
\* index in 0..4 and the alpha of that index in
\* [0.775, 0.819, 0.895, 0.995, 1.035]; runTest leaves both alone.
C4_InstanceState ==
    /\ (call.op = "new KSTest" /\ call.confidenceLevelIndex \notin 0..4)
           => (pc = "threw" /\ ret = Thrown("Invalid confidenceLevelIndex."))
    /\ ks.exists =>
           /\ ks.confidenceLevelIndex \in 0..4
           /\ ks.alpha = Fin(Lit(<<775000, 819000, 895000, 995000, 1035000>>
                                     [ks.confidenceLevelIndex + 1]))

C4_RunTestKeepsInstance ==
    (call.op = "runTest" \/ call'.op = "runTest") => ks' = ks

C4_ConstructorFailsFast == [](C4_InstanceState) /\ [][C4_RunTestKeepsInstance]_vars

\* C4 happens: a constructor call with index 5 has thrown and the instance built
\* before it, which has run a test, is as it was.
C4_Witness ==
    /\ pc = "threw"
    /\ call.op = "new KSTest"
    /\ call.confidenceLevelIndex = 5
    /\ ks.exists
    /\ ks.alpha = Fin(Lit(895000))

\* C5: runTest on the empty sample throws the empty-input error, for every
\* distribution code, before it sorts, computes statistics or builds results.
C5_EmptySampleThrows ==
    (call.op = "runTest" /\ Len(data) = 0) =>
        /\ pc = "threw"
        /\ ret = Thrown("Input data array cannot be empty.")
        /\ loc = NoLocals
        /\ results = NoResults

\* C5 happens: runTest on the empty sample with an unsupported code has thrown.
C5_Witness ==
    /\ call.op = "runTest"
    /\ data = <<>>
    /\ call.distType = 0
    /\ pc = "threw"

\* C6: for a non-empty sample and a code that is not one of 1..5, freq throws
\* the unsupported-distribution error, and runTest throws it in the first round
\* of its loop; neither returns a result.
C6_UnsupportedDistributionThrows ==
    /\ (call.op = "freq" /\ call.distType \notin 1..5 /\ Len(data) > 0)
           => (pc = "threw" /\ ret = Thrown("Unsupported distribution type (freq)"))
    /\ (call.op = "runTest" /\ call.distType \notin 1..5 /\ Len(data) > 0)
           => /\ pc \in {"runTest", "threw"}
              /\ pc = "runTest" => (loc.i = 1 /\ results.mark = <<>>)
              /\ pc = "threw" => ret = Thrown("Unsupported distribution type")

\* C6 happens: runTest with code 6 on a sample of three values has thrown.
C6_Witness ==
    /\ call.op = "runTest"
    /\ call.distType = 6
    /\ Len(data) = 3
    /\ pc = "threw"
    /\ ret = Thrown("Unsupported distribution type")

\* Is the observation of rank i strictly below its lower bound or strictly above
\* its upper bound, NaN bounds aside?
RankOutsideBand(R, i) ==
    \/ (R.lowerBound[i].k # "NaN" /\ JsLt[Fin(R.obs[i]), R.lowerBound[i]])
    \/ (R.upperBound[i].k # "NaN" /\ JsLt[R.upperBound[i], Fin(R.obs[i])])

\* C8: fitted is false iff some rank has a mark other than 'G', and a rank has
\* such a mark iff its observation is strictly outside a bound that is not NaN;
\* a false fitted stays false for the rest of the loop and in the result.
C8_FittedIffAllGood ==
    KSInView =>
        /\ (KSView.fitted = FALSE) <=> (\E i \in KSRanksDone : KSView.mark[i] # "G")
        /\ \A i \in KSRanksDone :
               (KSView.mark[i] # "G") <=> RankOutsideBand(KSView, i)

C8_FittedStaysFalse ==
    (pc = "runTest" /\ results.fitted = FALSE)
        => /\ pc' = "runTest" => results'.fitted = FALSE
           /\ pc' = "returned" => ret'.value.fitted = FALSE

C8_Fitted == [](C8_FittedIffAllGood) /\ [][C8_FittedStaysFalse]_vars

\* C8 happens: a returned result whose rank 1 is outside its band and whose
\* rank 2 is inside.
C8_Witness ==
    /\ KSInView
    /\ pc = "returned"
    /\ Len(KSView.mark) >= 2
    /\ KSView.mark[1] # "G"
    /\ KSView.mark[2] = "G"
    /\ KSView.fitted = FALSE

\* Is a probability outside the open interval (0, 1)?
OutsideUnitInterval(p) == p <= 0 \/ p >= Unit

\* C9: at a rank whose probLower (probUpper) is outside (0, 1) the lower (upper)
\* bound is NaN and the mark is not '-' ('+'); fitted is false only because of a
\* rank and side whose probability is inside (0, 1); and runTest does not throw
\* for the five distributions.
C9_BoundsOutsideUnitInterval ==
    /\ (call.op = "runTest" /\ call.distType \in FiveDistributions /\ Len(data) > 0)
           => pc # "threw"
    /\ KSInView =>
           /\ \A i \in KSRanksDone :
                  /\ OutsideUnitInterval(ProbLower(i, Len(KSView.obs), KSView.Ca))
                         => (KSView.lowerBound[i] = JsNaN /\ KSView.mark[i] # "-")
                  /\ OutsideUnitInterval(ProbUpper(i, Len(KSView.obs), KSView.Ca))
                         => (KSView.upperBound[i] = JsNaN /\ KSView.mark[i] # "+")
           /\ KSView.fitted = FALSE =>
                  \E i \in KSRanksDone :
                      \/ /\ KSView.mark[i] = "-"
                         /\ ~OutsideUnitInterval(
                                ProbLower(i, Len(KSView.obs), KSView.Ca))
                      \/ /\ KSView.mark[i] = "+"
                         /\ ~OutsideUnitInterval(
                                ProbUpper(i, Len(KSView.obs), KSView.Ca))

\* C9 happens: a returned result of three ranks in which rank 3 has no lower
\* bound, rank 1 has no upper bound, and another side rejects the fit.
C9_Witness ==
    /\ KSInView
    /\ pc = "returned"
    /\ Len(KSView.obs) = 3
    /\ OutsideUnitInterval(ProbLower(3, 3, KSView.Ca))
    /\ KSView.lowerBound[3] = JsNaN
    /\ OutsideUnitInterval(ProbUpper(1, 3, KSView.Ca))
    /\ KSView.upperBound[1] = JsNaN
    /\ KSView.fitted = FALSE

\* How often a value occurs in a sequence.
Occurrences(s, v) == Cardinality({j \in 1..Len(s) : s[j] = v})

\* C10: the six arrays of a returned result have length n; obs holds the input's
\* values in non-increasing order; est, the bounds and the mark at index i are
\* those of rank i; prob at rank i is i / (n + 1).
C10_ArraysAlignedByRank ==
    (KSInView /\ pc = "returned") =>
        /\ Len(data) > 0
        /\ Len(KSView.obs) = Len(data)
        /\ Len(KSView.est) = Len(data)
        /\ Len(KSView.lowerBound) = Len(data)
        /\ Len(KSView.upperBound) = Len(data)
        /\ Len(KSView.mark) = Len(data)
        /\ Len(KSView.prob) = Len(data)
        /\ \A v \in SampleValues : Occurrences(KSView.obs, v) = Occurrences(data, v)
        /\ \A i \in 1..(Len(data) - 1) : KSView.obs[i] >= KSView.obs[i + 1]
        /\ \A i \in 1..Len(data) :
               /\ KSView.prob[i] = RDiv[OfInt(i) * Unit, OfInt(Len(data) + 1)]
               /\ \E z \in {RunTestRankZ(call.distType,
                              [RunTestLocals(ks.alpha.v, call.distType, data)
                                   EXCEPT !.i = i])} :
                      /\ KSView.est[i] = z.zEst
                      /\ KSView.lowerBound[i] = z.zLow
                      /\ KSView.upperBound[i] = z.zHigh
                      /\ KSView.mark[i] = MarkOf(KSView.obs[i], z.zLow, z.zHigh)

\* C10 happens: a returned result of three ranks for an input whose first value
\* is its smallest.
C10_Witness ==
    /\ KSInView
    /\ pc = "returned"
    /\ Len(data) = 3
    /\ data[1] < data[2]
    /\ data[2] < data[3]
    /\ KSView.obs = <<data[3], data[2], data[1]>>

\* C13: a result for a valid confidence index has fitted = true iff
\* ObsChi2Value < EstChi2Value, strictly, and ObsChi2Value is the sum over the
\* bins of (o[i] - e[i])^2 / e[i].
C13_FittedIffObservedBelowCritical ==
    Chi2Returned =>
        /\ ret.value.fitted
               <=> \/ ret.value.EstChi2Value = JsPosInf
                   \/ /\ ret.value.EstChi2Value.k = "fin"
                      /\ ret.value.ObsChi2Value < ret.value.EstChi2Value.v
        /\ ret.value.ObsChi2Value
               = SumSeq[[i \in 1..Len(ret.value.o) |->
                            RDiv[RDiv[(OfInt(ret.value.o[i]) - ret.value.e[i])
                                          * (OfInt(ret.value.o[i]) - ret.value.e[i]),
                                      Unit] * Unit,
                                 ret.value.e[i]]]]

\* C13 happens: a result for the Normal distribution whose statistic is above
\* the critical value and which is not fitted.
C13_Witness ==
    /\ Chi2Returned
    /\ call.distType = Normal
    /\ ret.value.EstChi2Value.k = "fin"
    /\ ret.value.ObsChi2Value > ret.value.EstChi2Value.v
    /\ ret.value.fitted = FALSE

\* C14: for a non-empty sample every bin's expected count is n / intervalCount,
\* the same for all bins, so the expected counts add up to n (to within the
\* rounding of the division).
C14_ExpectedCountsUniform ==
    Chi2Returned =>
        /\ Len(ret.value.e) = Len(ret.value.o)
        /\ \A i \in 1..Len(ret.value.e) :
               ret.value.e[i] = RDiv[OfInt(Len(data)), Len(ret.value.e)]
        /\ 2 * Abs(SumSeq[ret.value.e] - OfInt(Len(data))) <= Len(ret.value.e)

\* C14 happens: three observations in three bins, one expected in each.
C14_Witness ==
    /\ Chi2Returned
    /\ call.distType = ExtremeValueType1
    /\ Len(data) = 3
    /\ ret.value.e = <<OfInt(1), OfInt(1), OfInt(1)>>

(***************************************************************************)
(* Properties of _calculateChiSquare over the number of intervals          *)
(***************************************************************************)
\* _calculateChiSquare has returned its results object.
Chi2Calculated == pc = "returned" /\ call.op = "_calculateChiSquare"

\* The number of parameters estimated from the sample.
EstimatedParameters(distType) ==
    IF distType \in {PearsonType3, LogPearsonType3} THEN 3 ELSE 2

\* max(1, intervalCount - 1 - p)
ClampedDf(distType, intervalCount) ==
    IF intervalCount - 1 - EstimatedParameters(distType) >= 1
    THEN intervalCount - 1 - EstimatedParameters(distType)
    ELSE 1

\* The critical value of the printed table for a df that may lie beyond it.
TableValue(df, confidenceIndex) ==
    IF df <= 20 THEN Fin(Lit(Chi2TableMilli[df][confidenceIndex + 1] * 1000))
    ELSE JsPosInf

C12_CriticalValue ==
    Chi2Calculated =>
        \E df \in {DegreesOfFreedom(call.distType, call.intervalCount)} :
            /\ (1 <= df /\ df <= 20) =>
                   ret.value.EstChi2Value
                       = Fin(Lit(Chi2TableMilli[df][call.confidenceIndex + 1] * 1000))
            /\ df > 20 =>
                   (ret.value.EstChi2Value = JsPosInf /\ ret.value.fitted = TRUE)

\* C12 happens: 24 intervals for the Normal distribution, df = 21, beyond the
\* table.
C12_Witness ==
    /\ Chi2Calculated
    /\ call.distType = Normal
    /\ call.intervalCount = 24
    /\ ret.value.EstChi2Value = JsPosInf
    /\ ret.value.fitted = TRUE

(***************************************************************************)
(* Properties of the four entry points together                            *)
(***************************************************************************)
\* C15: no step of statistics, freq, runTest or chi2Test, a throwing or
\* soft-failing one included, changes the caller's array: it holds the same
\* elements in the same order afterwards.
C15_StepKeepsSample == data' = data

C15_SampleNotMutated == [][C15_StepKeepsSample]_vars

\* C15 happens: chi2Test has sorted and binned a sample whose first value is its
\* largest, and the caller's array still starts with it.
C15_Witness ==
    /\ Chi2Returned
    /\ Len(data) = 3
    /\ data[1] > data[2]
    /\ data[1] > data[3]
    /\ ret.value.hi[3] = data[1] + OfInt(2)

\* The call that has just completed has the arguments of the call whose outcome
\* the caller kept, on an instance constructed with the same index.
SameCallAsKept ==
    /\ pc \in {"returned", "threw"}
    /\ kept # NoKept
    /\ kept.call.op = call.op
    /\ kept.call = call
    /\ call.op = "runTest" => kept.confidenceLevelIndex = ks.confidenceLevelIndex

\* C16: a call of statistics, freq, runTest or chi2Test assigns no field of the
\* instance it is called on, and in any sequence of calls on shared instances a
\* call with the arguments of an earlier one (for runTest: on an instance
\* constructed with the same index) has the outcome the earlier one had.
C16_SameOutcome == SameCallAsKept => ret = kept.ret

C16_CallKeepsInstance ==
    call'.op \in {"statistics", "freq", "runTest", "chi2Test"} => ks' = ks

StatisticsReturned == pc = "returned" /\ call.op = "statistics"

AllIdentical(X) == \A i \in 1..Len(X) : X[i] = X[1]

\* C17: statistics returns all zeros for n = 0, a standard deviation of 0 for
\* n = 1 and a skewness of 0 for n <= 2; and for a sample whose values are all
\* identical the standard deviation and the skewness are 0 and
\* min = max = mean.
C17_DegenerateSamples ==
    StatisticsReturned =>
        /\ Len(data) = 0 =>
               ret.value = [Xmin |-> 0, Xmax |-> 0, M |-> 0, SD |-> 0, Cv |-> 0,
                            Cs |-> 0]
        /\ Len(data) = 1 => ret.value.SD = 0
        /\ Len(data) <= 2 => ret.value.Cs = 0
        /\ (Len(data) > 0 /\ AllIdentical(data)) =>
               /\ ret.value.SD = 0
               /\ ret.value.Cs = 0
               /\ ret.value.Xmin = ret.value.M
               /\ ret.value.Xmax = ret.value.M

\* ---- Look: range, centre, antisymmetry and recursion depth ----

LookReturned == pc = "returned" /\ call.op = "Look"

\* C18: Look returns NaN for p <= 0 and for p >= 1, exactly 0 for p = 0.5, and
\* satisfies Look(p) = -Look(1 - p) for every p inside (0, 1); for p < 0.5
\* it calls itself exactly once (with 1 - p >= 0.5) and for every other p not at all.
C18_LookAntisymmetric ==
    LookReturned =>
        /\ (call.p <= 0 \/ call.p >= Unit) => IsNaN(ret.value)
        /\ 2 * call.p = Unit => ret.value = Fin(0)
        /\ (call.p > 0 /\ call.p < Unit) =>
               /\ IsFin(ret.value)
               /\ ret.value = JsNeg[Look(Unit - call.p)]
        /\ loc.nested = IF call.p > 0 /\ 2 * call.p < Unit THEN 1 ELSE 0

\* Look has returned a negative quantile for a probability below 0.5, after one nested call.
C18_Witness ==
    /\ LookReturned
    /\ call.p > 0 /\ 2 * call.p < Unit
    /\ loc.nested = 1
    /\ IsFin(ret.value) /\ ret.value.v < 0

\* ---- freq: the Normal distribution ----

FreqReturned == pc = "returned" /\ call.op = "freq"

\* z = Look(1 - 1 / T)
ZOfPeriod(T) == Look(Unit - Div(Unit, T))

\* C19: freq(Normal, sample, T) returns Kt = z and Qest = mean + z * std with
\* z = Look(1 - 1/T) and mean, std the moments of the sample as given: no
\* logarithm is taken and nothing is added to the estimate.
C19_NormalEstimate ==
    (FreqReturned /\ call.distType = Normal) =>
        /\ ret.value.Kt = ZOfPeriod(call.T)
        /\ ret.value.Qest = JsAdd[Fin(statistics[data].M),
                                  JsMul[ZOfPeriod(call.T), Fin(statistics[data].SD)]]

\* freq(Normal) has returned an estimate above the mean of a sample whose
\* logarithms have other moments than the sample itself.
C19_Witness ==
    /\ FreqReturned /\ call.distType = Normal
    /\ statistics[data].SD > 0
    /\ statistics[LogTransform[data]] # statistics[data]
    /\ IsFin(ret.value.Kt) /\ ret.value.Kt.v > 0
    /\ IsFin(ret.value.Qest) /\ ret.value.Qest.v > statistics[data].M

\* ---- freq: the distributions fitted to logarithms ----

AllPositive(X) == \A i \in 1..Len(X) : X[i] > 0

\* The moments of the base-10 logarithms of a sample of positive values.
LogMoments(X) == statistics[[i \in 1..Len(X) |-> Log10(X[i])]]

\* The estimate in log space: mean + Kt * std of the logarithms.
LogSpaceEstimate(distType, X, T) ==
    IF distType = LogNormal
    THEN CalculateNormal[LogMoments(X).M, LogMoments(X).SD, ZOfPeriod(T)]
    ELSE CalculatePearsonType3[LogMoments(X).M, LogMoments(X).SD, LogMoments(X).Cs, ZOfPeriod(T), 0]

\* C20: for LogNormal and LogPearsonIII, freq takes the moments of the base-10
\* logarithms of the sample and returns Qest = 10 ^ (estimate in log space); for
\* every sample of positive values and every T > 1 the returned Qest is >= 0.
C20_LogEstimateNonNegative ==
    (FreqReturned /\ call.distType \in {LogNormal, LogPearsonType3} /\ AllPositive(data)) =>
        /\ ret.value.Kt = LogSpaceEstimate(call.distType, data, call.T).Kt
        /\ ret.value.Qest = JsPow10[LogSpaceEstimate(call.distType, data, call.T).Qest]
        /\ call.T > Unit => (IsFin(ret.value.Qest) \/ ret.value.Qest = JsPosInf) /\ ret.value.Qest.v >= 0

\* ---- runTest on a sample of equal values ----

KSReturned == pc = "returned" /\ call.op = "runTest"

\* C21: for a sample whose values are all equal, runTest returns the mark 'G'
\* for every rank and fitted = true, for every distribution and every
\* confidence level.
C21_EqualValuesAllGood ==
    (KSReturned /\ AllIdentical(data)) =>
        /\ ret.value.fitted = TRUE
        /\ \A i \in 1..Len(ret.value.mark) : ret.value.mark[i] = "G"

\* ---- freq at the return period T = 1 ----

\* C22: for T = 1 (px = 1) and any sample, freq throws for none of the five
\* distributions: it returns a result whose Kt and Qest are NaN for Normal,
\* LogNormal, PearsonType3 and LogPearsonType3, and are not finite for
\* ExtremeValueType1 (Kt = -Infinity).
C22_DegenerateProbabilityIsNoError ==
    (call.op = "freq" /\ call.T = OfInt(1) /\ call.distType \in FiveDistributions) =>
        /\ pc = "returned"
        /\ call.distType # ExtremeValueType1 =>
               IsNaN(ret.value.Kt) /\ IsNaN(ret.value.Qest)
        /\ call.distType = ExtremeValueType1 =>
               /\ ret.value.Kt = JsNegInf
               /\ ~IsFin(ret.value.Qest)

\* freq has returned for T = 1 with NaN for a normal-family distribution.
C22_Witness ==
    /\ FreqReturned /\ call.T = OfInt(1)
    /\ call.distType = LogPearsonType3
    /\ Len(data) = MaxN /\ statistics[LogTransform[data]].SD > 0
    /\ IsNaN(ret.value.Kt) /\ IsNaN(ret.value.Qest)

\* ---- runTest's estimates against freq ----

\* The return period of rank i among n: T = (n + 1) / i.
PeriodOfRank(n, i) == Div(OfInt(n + 1), OfInt(i))

\* C23: for every non-empty sample, each of the five distributions and every
\* rank i in 1..n, the estimate est[i - 1] of runTest equals
\* freq(distribution, sample, (n + 1) / i).Qest.
C23_EstimateEqualsFreq ==
    (KSReturned /\ call.distType \in FiveDistributions) =>
        \A i \in 1..Len(data) :
            ret.value.est[i] = freq(call.distType, data, PeriodOfRank(Len(data), i)).Qest

\* ---- chi2Test: the intervals ----

\* The quantile of the fitted distribution at the cumulative probability cum,
\* from the moments of a statistics object.
FittedQuantile(distType, stats, cum) ==
    IF distType \in {Normal, LogNormal}
    THEN stats.M + Mul(stats.SD, Look(cum).v)
    ELSE IF distType \in {PearsonType3, LogPearsonType3}
    THEN stats.M + Mul(stats.SD, WilsonHilferty[Look(cum).v, stats.Cs])
    ELSE LET alpha == Mul(Lit(779700), stats.SD)
         IN  (stats.M - Mul(Lit(577200), alpha)) + Mul(alpha, Extreme[Unit - cum].v)

FreqOnEmpty == call.op = "freq" /\ Len(data) = 0 /\ call.distType \in FiveDistributions

\* The estimate of the all-zero moment summary: 0, and 10 ^ 0 in the original
\* scale for the distributions fitted to logarithms.
EmptySampleEstimate(distType) == IF RequiresLog(distType) THEN Fin(OfInt(1)) ELSE Fin(0)

Chi2ValidCall == call.op = "chi2Test" /\ ~Chi2IndexInvalid(call.confidenceIndex)

\* C27: with a valid confidence index, chi2Test returns a results object only
\* for n >= 1; for the empty sample it returns neither results nor the
\* soft-failure object but throws, the interval count
\* 1 + round(3.3 * log10(0)) being no positive finite number.
C27_EmptySampleThrows ==
    Chi2ValidCall =>
        /\ Len(data) = 0 =>
               /\ pc = "threw" /\ ret.kind = "error"
               /\ ~IsFin(IntervalCount(0))
        /\ Len(data) >= 1 =>
               /\ pc = "returned" /\ ret.value.kind = "results"
               /\ IsFin(IntervalCount(Len(data))) /\ IntervalCount(Len(data)).v >= 1

\* chi2Test has thrown on the empty sample for a valid confidence index.
C27_Witness ==
    /\ Chi2ValidCall /\ Len(data) = 0
    /\ call.distType = Normal /\ call.confidenceIndex = 2
    /\ pc = "threw"

\* ---- findReturnPeriod and findRP ----

FindReturned == pc = "returned" /\ call.op = "findRP"

\* The value is neither below the first estimate nor above the last.
WithinEstimates(value, q) == ~(value < q[1]) /\ ~(value > q[Len(q)])

\* The label is that of an interval k in 1..n-1 whose estimates bracket the value.
BracketLabel(label, value, q) ==
    \E k \in 1..(Len(q) - 1) :
        label = RpLabel(k) /\ q[k] <= value /\ value <= q[k + 1]

\* The label prescribed for the cases below the first and above the last estimate.
OutsideLabel(label, value, q) ==
    /\ value < q[1] => label = RpLabel(0)
    /\ value > q[Len(q)] => label = RpLabel(Len(q))

\* C30 as stated: for a non-decreasing array q of n >= 1 estimates,
\* findReturnPeriod returns the label k = 0 if value < q[0], k = n if
\* value > q[n-1], and otherwise that of a k in 1..n-1 with
\* q[k-1] <= value <= q[k]; findRP returns one label per distribution, in order.
C30_LabelBracketsValue ==
    FindReturned =>
        /\ Len(ret.value) = Len(data)
        /\ \A d \in 1..Len(data) :
               data[d].isArray =>
                   /\ OutsideLabel(ret.value[d], call.value, data[d].estmateResults)
                   /\ WithinEstimates(call.value, data[d].estmateResults) =>
                          BracketLabel(ret.value[d], call.value, data[d].estmateResults)

\* C30, amended: as stated for n >= 2; for n = 1 and value = q[0], where no
\* interval 1..n-1 exists, the label is that of k = 1.
C30_LabelBracketsValueOrSingle ==
    FindReturned =>
        /\ Len(ret.value) = Len(data)
        /\ \A d \in 1..Len(data) :
               data[d].isArray =>
                   /\ OutsideLabel(ret.value[d], call.value, data[d].estmateResults)
                   /\ WithinEstimates(call.value, data[d].estmateResults) =>
                          IF Len(data[d].estmateResults) = 1
                          THEN ret.value[d] = RpLabel(1)
                          ELSE BracketLabel(ret.value[d], call.value, data[d].estmateResults)

\* findRP has returned, for two distributions in order, the label of an inner
\* interval reached by the loop and the label above the last estimate.
C30_Witness ==
    /\ FindReturned /\ Len(data) = 2
    /\ data[1].isArray /\ Len(data[1].estmateResults) = MaxEstimates
    /\ ret.value[1] = RpLabel(2)
    /\ data[2].isArray /\ Len(data[2].estmateResults) >= 2
    /\ call.value > data[2].estmateResults[Len(data[2].estmateResults)]
    /\ ret.value[2] = RpLabel(Len(data[2].estmateResults))

(***************************************************************************)
(* Properties of the page                                                  *)
(***************************************************************************)
\* C28: under every interleaving of input edits, file reads completing,
\* Process clicks, Run clicks and the chart tab's 'shown' callback, the Run
\* Analysis button is enabled only when the text now in the input box has
\* been processed successfully since its last change.
C28_RunEnabledOnlyWhenProcessed ==
    ~page.runDisabled => page.processed

\* C29: after one or more completed Run Analysis cycles, each of which ran
\* UIManager.init on a dataset with rows, one change of the duration select
\* causes exactly one recomputation and one click on the find button exactly
\* one lookup.
C29_OneHandlerPerEvent ==
    (page.cycles >= 1 /\ page.changeHandlers = page.cycles) =>
        /\ page.last = "change" => page.recomputations = 1
        /\ page.last = "click" => page.lookups = 1

(***************************************************************************)
(* Properties of the intervals                                             *)
(***************************************************************************)
\* The edges of a returned result, from lo[1] through hi[1..intervalCount].
Chi2Edges == <<ret.value.lo[1]>> \o ret.value.hi

\* The intervals of a returned result that count the observation value.
BinsCounting(value) ==
    {i \in 1..Len(ret.value.hi) : InBin(value, ret.value.lo[i], ret.value.hi[i])}

\* C25: no observation is counted twice: the intervals are pairwise disjoint,
\* the edges being non-decreasing from lo[1] to hi[intervalCount], every
\* observation adds to at most one count, and the counts add up to at most n.
C25_EdgesNonDecreasing ==
    (Chi2Returned /\ call.distType \in FiveDistributions) =>
        /\ \A i \in 1..(Len(Chi2Edges) - 1) : Chi2Edges[i] <= Chi2Edges[i + 1]
        /\ \A j \in 1..Len(data) : Cardinality(BinsCounting(Chi2Counted[j])) <= 1
        /\ SumSeq[ret.value.o] <= Len(data)

\* C25, amended: no observation is counted twice: no value lies in two
\* intervals, the inner edges hi[1..intervalCount - 1] being non-decreasing
\* (the padded ends lo[1] and hi[intervalCount] can lie inside them), every
\* observation adds to at most one count, and the counts add up to at most n.
C25_NoObservationCountedTwice ==
    (Chi2Returned /\ call.distType \in FiveDistributions) =>
        /\ \A i \in 1..(Len(ret.value.hi) - 2) : ret.value.hi[i] <= ret.value.hi[i + 1]
        /\ \A i \in 1..Len(ret.value.hi), j \in 1..Len(ret.value.hi) :
               i # j => \A x \in {Chi2Edges[e] + d : e \in 1..Len(Chi2Edges), d \in {-1, 0, 1}} :
                            ~(InBin(x, ret.value.lo[i], ret.value.hi[i])
                              /\ InBin(x, ret.value.lo[j], ret.value.hi[j]))
        /\ \A j \in 1..Len(data) : Cardinality(BinsCounting(Chi2Counted[j])) <= 1
        /\ SumSeq[ret.value.o] <= Len(data)

\* chi2Test has returned four intervals whose first upper edge, a fitted
\* quantile, lies below lo[1] = min - 2, and each observation is in one count.
C25_Witness ==
    /\ Chi2Returned /\ call.distType = Normal
    /\ Len(ret.value.hi) = 4
    /\ ret.value.hi[1] < ret.value.lo[1]
    /\ ret.value.o[1] = 0
    /\ SumSeq[ret.value.o] = Len(data)


====
